---------------------------- MODULE Spec2Model ----------------------------
(***************************************************************************)
(* Verification model of the rp4os kernel's virtual-memory core: the       *)
(* 64 KiB-granule translation table and its descriptor encoding, the page  *)
(* region / bump allocator, the mapping record, the MMU enable sequence,   *)
(* the lifecycle locks, the kernel's mapping interface (kernel_map_at,     *)
(* kernel_map_mmio) and the order of kernel_init.                          *)
(*                                                                         *)
(* Addresses are byte addresses of a machine word of WordBits bits; the    *)
(* granule is 2^GranuleShift bytes.  The program's word (64 bits), granule *)
(* (64 KiB) and level-3 fan-out (8192) are scaled down; every operator is  *)
(* written over the scaled parameters exactly as the source computes over  *)
(* the real ones.  A register is the record of its bit-fields.             *)
(***************************************************************************)
EXTENDS Integers, Sequences, FiniteSets, TLC

(***************************************************************************)
(* State.                                                                  *)
(***************************************************************************)
VARIABLES
    lvl3, lvl2, initialized,            \* FixedSizeTranslationTable
    tt_last, tt_calls, tt_halted,       \* its last call, calls made, kernel halted
    pa_pool,                            \* PageAllocator::pool
    pa_last, pa_allocs, pa_origin,      \* its last call, regions returned, first pool
    mr_inner,                           \* MappingRecords::inner
    mr_last, mr_halted,                 \* its last call, kernel halted
    regs,                               \* MAIR_EL1, TCR_EL1, TTBR0_EL1, SCTLR_EL1, ID_AA64MMFR0_EL1
    mmu_pc, mmu_arg, mmu_res,           \* enable_mmu_and_caching: position, argument, result
    mmu_ok_count,                       \* calls that returned Ok
    mmu_trace,                          \* register writes and barriers of the latest call
    kernel_state, DAIF,                 \* lifecycle state, interrupt mask bits
    lk_data,                            \* the data an InitStateLock wraps
    lk_last, lk_halted,                 \* its last call, kernel halted
    il_stack, il_data, il_last,         \* IRQSafeNullLock: open lock calls, data, last call
    k_last, k_halted,                   \* kernel mapping interface: last call, kernel halted
    k_mmio_ok,                          \* kernel_map_mmio: regions mapped
    boot_pc, boot_layout, boot_base,    \* kernel_init: position, linked layout, table base
    boot_drivers, boot_init_done,       \* drivers registered, bsp::driver::init's INIT_DONE
    boot_heap,                          \* region the heap allocator was initialized with
    co_addr, co_count,                  \* PageAddress::checked_offset: self, count
    co_pc, co_there, co_back,           \* calls made, self + count, (self + count) - count
    dm_inner, cur_console,              \* DriverManager::inner, console::CUR_CONSOLE
    dm_trace, dm_res,                   \* init_drivers_and_irqs: driver calls made, outcome
    to_dev, to_host,                    \* serial line: bytes under way to the loader, to the host
    ld_pc, ld_size, ld_n,               \* loader: position, size, bytes of size or payload read
    ld_rx, ld_mem, ld_tx, ld_jump,      \* loader: bytes read, memory written, acks sent, jump
    h_pc, h_file, h_n, h_buff,          \* send_kernel: position, kernel file, loop index, buff
    h_report, h_keys, h_uploads         \* host: last message, keys typed, uploads started

ttVars == <<lvl3, lvl2, initialized, tt_last, tt_calls, tt_halted>>
paVars == <<pa_pool, pa_last, pa_allocs, pa_origin>>
mrVars == <<mr_inner, mr_last, mr_halted>>
mmuVars == <<regs, mmu_pc, mmu_arg, mmu_res, mmu_ok_count, mmu_trace>>
lkVars == <<kernel_state, DAIF, lk_data, lk_last, lk_halted>>
ilVars == <<il_stack, il_data, il_last>>
kVars == <<k_last, k_halted, k_mmio_ok>>
bVars == <<boot_pc, boot_layout, boot_base, boot_drivers, boot_init_done, boot_heap>>

coVars == <<co_addr, co_count, co_pc, co_there, co_back>>

phVars == <<dm_inner, cur_console>>

dVars == <<dm_trace, dm_res>>

ldVars == <<ld_pc, ld_size, ld_n, ld_rx, ld_mem, ld_tx, ld_jump>>

hVars == <<h_pc, h_file, h_n, h_buff, h_report, h_keys, h_uploads>>

slVars == <<to_dev, to_host, ldVars, hVars>>

vars == <<ttVars, paVars, mrVars, mmuVars, lkVars, ilVars, kVars, bVars, coVars, phVars, dVars, slVars>>

ttOthers == <<paVars, mrVars, mmuVars, lkVars, ilVars, kVars, bVars, coVars, phVars, dVars, slVars>>
paOthers == <<ttVars, mrVars, mmuVars, lkVars, ilVars, kVars, bVars, coVars, phVars, dVars, slVars>>
mrOthers == <<ttVars, paVars, mmuVars, lkVars, ilVars, kVars, bVars, coVars, phVars, dVars, slVars>>
mmuOthers == <<ttVars, paVars, mrVars, lkVars, ilVars, kVars, bVars, coVars, phVars, dVars, slVars>>
lkOthers == <<ttVars, paVars, mrVars, mmuVars, ilVars, kVars, bVars, coVars, phVars, dVars, slVars>>
ilOthers == <<ttVars, paVars, mrVars, mmuVars, kernel_state, lk_data, lk_last, lk_halted, kVars, bVars, coVars, phVars, dVars, slVars>>
phOthers == <<tt_last, tt_calls, tt_halted, pa_last, pa_allocs, pa_origin, mr_last, mr_halted,
              mmuVars, lk_data, lk_last, lk_halted, ilVars, bVars, coVars, dVars, slVars>>
kOthers == <<phOthers, phVars>>
bOthers == <<tt_last, tt_calls, tt_halted, pa_last, pa_allocs, pa_origin, mr_last, mr_halted,
             mmu_pc, mmu_trace, lk_data, lk_last, lk_halted, ilVars, k_halted, coVars, slVars>>

coOthers == <<ttVars, paVars, mrVars, mmuVars, lkVars, ilVars, kVars, bVars, phVars, dVars, slVars>>
dOthers == <<ttVars, paVars, mrVars, mmuVars, lkVars, ilVars, kVars, bVars, coVars, cur_console, slVars>>

slOthers == <<ttVars, paVars, mrVars, mmuVars, lkVars, ilVars, kVars, bVars, coVars, phVars, dVars>>

(***************************************************************************)
(* Bounds of the model.                                                    *)
(***************************************************************************)
WordBits == 6
GranuleShift == 2
EntriesPerTable == 4
PhysPages == 9
MaxMapCalls == 2

RECURSIVE Pow2(_)
Pow2(n) == IF n = 0 THEN 1 ELSE 2 * Pow2(n - 1)

WordModulus == Pow2(WordBits)
KernelGranule_SIZE == Pow2(GranuleShift)
MS512MiB_SIZE == EntriesPerTable * KernelGranule_SIZE

(* NUM_TABLES = AddressSpace::SIZE >> MS512MiB::SHIFT = 1 GiB / 512 MiB.   *)
NUM_TABLES == 2

(* MS512MiB::SHIFT = log2(512 MiB)                                         *)
MS512MiB_SHIFT == 29

(* KernelVirtAddrSpace::SIZE_SHIFT = log2(1 GiB)                           *)
KernelVirtAddrSpace_SIZE_SHIFT == 30

phys_addr_space_end_exclusive_addr == PhysPages * KernelGranule_SIZE

(***************************************************************************)
(* Results.                                                                *)
(***************************************************************************)
OkRes == "Ok"

(***************************************************************************)
(* Regions: [start, end_exclusive) of page-aligned byte addresses.         *)
(***************************************************************************)
MemoryRegion(s, e) == [start |-> s, end_exclusive |-> e]

size(r) == r.end_exclusive - r.start

(* Step::steps_between: None (here -1) if start > end.                     *)
steps_between(s, e) == IF s > e THEN -1 ELSE (e - s) \div KernelGranule_SIZE

num_pages(r) == steps_between(r.start, r.end_exclusive)

(* The page addresses Range<PageAddress> iterates over.                    *)
as_range(r) ==
    { a \in r.start .. (r.end_exclusive - 1) : (a - r.start) % KernelGranule_SIZE = 0 }

(***************************************************************************)
(* AttributeFields and the level-3 page descriptor.                        *)
(***************************************************************************)
MemAttributes == {"CacheableDRAM", "Device"}
AccessPermissions == {"ReadOnly", "ReadWrite"}
AttributeFields ==
    [mem_attributes : MemAttributes, acc_perms : AccessPermissions, executable : BOOLEAN]

NoAttr == [mem_attributes |-> "none", acc_perms |-> "none", executable |-> FALSE]

mair_DEVICE == 0
mair_NORMAL == 1

PageDescriptor_new_zeroed ==
    [UXN |-> 0, PXN |-> 0, OUTPUT_ADDR_64KiB |-> 0, AF |-> 0, SH |-> 0, AP |-> 0,
     AttrIndx |-> 0, TYPE |-> 0, VALID |-> 0]

AttributeFields_into_el0_access(attribute_fields) ==
    [SH       |-> IF attribute_fields.mem_attributes = "CacheableDRAM" THEN 3 ELSE 2,
     AttrIndx |-> IF attribute_fields.mem_attributes = "CacheableDRAM"
                  THEN mair_NORMAL ELSE mair_DEVICE,
     AP       |-> IF attribute_fields.acc_perms = "ReadOnly" THEN 3 ELSE 1,
     PXN      |-> IF attribute_fields.executable THEN 0 ELSE 1,
     UXN      |-> 1]

(* From<AttributeFields> for FieldValue: the attribute bit-fields.         *)
AttributeFields_into(attribute_fields) ==
    [SH       |-> IF attribute_fields.mem_attributes = "CacheableDRAM" THEN 3 ELSE 2,
     AttrIndx |-> IF attribute_fields.mem_attributes = "CacheableDRAM"
                  THEN mair_NORMAL ELSE mair_DEVICE,
     AP       |-> IF attribute_fields.acc_perms = "ReadOnly" THEN 2 ELSE 0,
     PXN      |-> IF attribute_fields.executable THEN 0 ELSE 1,
     UXN      |-> 1]

PageDescriptor_new(phys_output_addr, attribute_fields) ==
    LET f == AttributeFields_into(attribute_fields)
    IN  [UXN |-> f.UXN, PXN |-> f.PXN,
         OUTPUT_ADDR_64KiB |-> phys_output_addr \div KernelGranule_SIZE,
         AF |-> 1, SH |-> f.SH, AP |-> f.AP, AttrIndx |-> f.AttrIndx,
         TYPE |-> 1, VALID |-> 1]

is_valid(desc) == desc.VALID = 1

(* TryFrom<InMemoryRegister<..>> for AttributeFields.                      *)
try_attributes(desc) ==
    IF desc.AttrIndx \notin {mair_NORMAL, mair_DEVICE}
    THEN [res |-> "Unexpected memory attribute", attr |-> NoAttr]
    ELSE IF desc.AP \notin {2, 0}
    THEN [res |-> "Unexpected access permission", attr |-> NoAttr]
    ELSE [res  |-> OkRes,
          attr |-> [mem_attributes |-> IF desc.AttrIndx = mair_NORMAL
                                       THEN "CacheableDRAM" ELSE "Device",
                    acc_perms      |-> IF desc.AP = 2 THEN "ReadOnly" ELSE "ReadWrite",
                    executable     |-> desc.PXN > 0]]

(***************************************************************************)
(* FixedSizeTranslationTable.                                              *)
(***************************************************************************)
TableIdx == 0 .. (NUM_TABLES - 1)
EntryIdx == 0 .. (EntriesPerTable - 1)

lvl3_new == [i \in TableIdx |-> [j \in EntryIdx |-> PageDescriptor_new_zeroed]]

TableDescriptor_new_zeroed == [NEXT_LEVEL_TABLE_ADDR_64KiB |-> 0, TYPE |-> 0, VALID |-> 0]

TableDescriptor_from_phys_addr(phys_next_lvl_table_addr) ==
    [NEXT_LEVEL_TABLE_ADDR_64KiB |-> phys_next_lvl_table_addr \div KernelGranule_SIZE,
     TYPE |-> 1, VALID |-> 1]

(* The table is one #[repr(C)] struct: lvl3[i] is one granule long, lvl2   *)
(* follows the last lvl3 block.  TableBasePage is its link address.        *)
TableBasePage == 1
lvl3_phys_start_addr_first_block(i) == TableBasePage * KernelGranule_SIZE

lvl3_phys_start_addr(i) == (TableBasePage + i) * KernelGranule_SIZE
phys_base_address == (TableBasePage + NUM_TABLES) * KernelGranule_SIZE

lvl2_lvl3_index_from_page_addr_first_slot(virt_page_addr) ==
    LET lvl2_index == virt_page_addr \div MS512MiB_SIZE
    IN  IF lvl2_index > NUM_TABLES - 1
        THEN [res |-> "Virtual page is out of bounds of translation table",
              lvl2_index |-> 0, lvl3_index |-> 0]
        ELSE [res |-> OkRes, lvl2_index |-> lvl2_index, lvl3_index |-> 0]

lvl2_lvl3_index_from_page_addr(virt_page_addr) ==
    LET lvl2_index == virt_page_addr \div MS512MiB_SIZE
        lvl3_index == (virt_page_addr % MS512MiB_SIZE) \div KernelGranule_SIZE
    IN  IF lvl2_index > NUM_TABLES - 1
        THEN [res |-> "Virtual page is out of bounds of translation table",
              lvl2_index |-> 0, lvl3_index |-> 0]
        ELSE [res |-> OkRes, lvl2_index |-> lvl2_index, lvl3_index |-> lvl3_index]

set_descriptor_overwrite(tbl, virt_page_addr, new_desc) ==
    LET ix == lvl2_lvl3_index_from_page_addr(virt_page_addr)
    IN  IF ix.res # OkRes THEN [res |-> ix.res, lvl3 |-> tbl]
        ELSE [res |-> OkRes,
              lvl3 |-> [tbl EXCEPT ![ix.lvl2_index][ix.lvl3_index] = new_desc]]

set_descriptor(tbl, virt_page_addr, new_desc) ==
    LET ix == lvl2_lvl3_index_from_page_addr(virt_page_addr)
    IN  IF ix.res # OkRes THEN [res |-> ix.res, lvl3 |-> tbl]
        ELSE IF is_valid(tbl[ix.lvl2_index][ix.lvl3_index])
        THEN [res |-> "Virtual page is already mapped", lvl3 |-> tbl]
        ELSE [res |-> OkRes,
              lvl3 |-> [tbl EXCEPT ![ix.lvl2_index][ix.lvl3_index] = new_desc]]

get_descriptor(tbl, virt_page_addr) ==
    LET ix == lvl2_lvl3_index_from_page_addr(virt_page_addr)
    IN  IF ix.res # OkRes THEN [res |-> ix.res, desc |-> PageDescriptor_new_zeroed]
        ELSE [res |-> OkRes, desc |-> tbl[ix.lvl2_index][ix.lvl3_index]]

(* The body of map_at's for loop over phys_region.zip(virt_region), from   *)
(* the k-th page pair on; `?` returns at the first failing set_descriptor  *)
(* and keeps the descriptors written before it.                            *)
RECURSIVE map_at_loop(_, _, _, _, _, _)
map_at_loop(tbl, virt_start, phys_start, k, n, attr) ==
    IF k >= n THEN [res |-> OkRes, lvl3 |-> tbl]
    ELSE LET new_desc == PageDescriptor_new(phys_start + k * KernelGranule_SIZE, attr)
             r == set_descriptor(tbl, virt_start + k * KernelGranule_SIZE, new_desc)
         IN  IF r.res # OkRes THEN r
             ELSE map_at_loop(r.lvl3, virt_start, phys_start, k + 1, n, attr)

Min(a, b) == IF a < b THEN a ELSE b

assert_initialized_skipped(flag) == TRUE

(* assert!(self.initialized, ..) at the head of map_at: FALSE panics.      *)
assert_initialized(flag) == flag

map_at_unchecked_regions(tbl, virt_region, phys_region, attr) ==
    map_at_loop(tbl, virt_region.start, phys_region.start, 0,
                Min(num_pages(phys_region), num_pages(virt_region)), attr)

(* map_at on an initialized table (the assert is the action's guard).      *)
map_at(tbl, virt_region, phys_region, attr) ==
    IF size(virt_region) # size(phys_region)
    THEN [res |-> "Tried to map memory regions with unequal sizes", lvl3 |-> tbl]
    ELSE IF phys_region.end_exclusive > phys_addr_space_end_exclusive_addr
    THEN [res |-> "Tried to map outside of physical address space", lvl3 |-> tbl]
    ELSE map_at_loop(tbl, virt_region.start, phys_region.start, 0,
                     Min(num_pages(phys_region), num_pages(virt_region)), attr)

try_page_attributes(tbl, virt_page_addr) ==
    LET g == get_descriptor(tbl, virt_page_addr)
    IN  IF g.res # OkRes THEN [res |-> g.res, attr |-> NoAttr]
        ELSE IF ~is_valid(g.desc) THEN [res |-> "Page marked invalid", attr |-> NoAttr]
        ELSE try_attributes(g.desc)

(***************************************************************************)
(* State of the translation table and of its last call.                    *)
(***************************************************************************)
TTNoCall == [op |-> "none", res |-> "none", virt |-> MemoryRegion(0, 0),
             phys |-> MemoryRegion(0, 0), attr |-> NoAttr]

(* FixedSizeTranslationTable::new                                          *)
TTInit ==
    /\ lvl3 = lvl3_new
    /\ lvl2 = [i \in TableIdx |-> TableDescriptor_new_zeroed]
    /\ initialized = FALSE
    /\ tt_last = TTNoCall
    /\ tt_calls = 0
    /\ tt_halted = FALSE

(* Inputs of the calls.                                                    *)
VirtStarts == { p * KernelGranule_SIZE : p \in 0 .. (NUM_TABLES * EntriesPerTable) }
RegionPages == {1, 2}
PhysStarts == { 0, (PhysPages - 1) * KernelGranule_SIZE }
SizeDeltas == {0, 1}

TT_init ==
    /\ ~tt_halted
    /\ lvl2' = IF initialized THEN lvl2
               ELSE [i \in TableIdx |-> TableDescriptor_from_phys_addr(lvl3_phys_start_addr(i))]
    /\ initialized' = TRUE
    /\ tt_last' = [TTNoCall EXCEPT !.op = "init", !.res = OkRes]
    /\ UNCHANGED <<lvl3, tt_calls, tt_halted>>
    /\ UNCHANGED ttOthers

TT_map_at ==
    /\ ~tt_halted
    /\ tt_calls < MaxMapCalls
    /\ \E vs \in VirtStarts, n \in RegionPages, ps \in PhysStarts, d \in SizeDeltas,
          attr \in AttributeFields :
          LET virt_region == MemoryRegion(vs, vs + n * KernelGranule_SIZE)
              phys_region == MemoryRegion(ps, ps + (n + d) * KernelGranule_SIZE)
              r == map_at(lvl3, virt_region, phys_region, attr)
          IN  IF ~assert_initialized(initialized)
              THEN /\ tt_halted' = TRUE
                   /\ tt_last' = [op |-> "map_at", res |-> "panic", virt |-> virt_region,
                                  phys |-> phys_region, attr |-> attr]
                   /\ UNCHANGED lvl3
              ELSE /\ lvl3' = r.lvl3
                   /\ tt_last' = [op |-> "map_at", res |-> r.res, virt |-> virt_region,
                                  phys |-> phys_region, attr |-> attr]
                   /\ UNCHANGED tt_halted
    /\ tt_calls' = tt_calls + 1
    /\ UNCHANGED <<lvl2, initialized>>
    /\ UNCHANGED ttOthers

TT_try_page_attributes ==
    /\ ~tt_halted
    /\ \E vs \in VirtStarts :
          LET r == try_page_attributes(lvl3, vs)
          IN  tt_last' = [op |-> "try_page_attributes", res |-> r.res,
                          virt |-> MemoryRegion(vs, vs + KernelGranule_SIZE),
                          phys |-> MemoryRegion(0, 0), attr |-> r.attr]
    /\ UNCHANGED <<lvl3, lvl2, initialized, tt_calls, tt_halted>>
    /\ UNCHANGED ttOthers

(***************************************************************************)
(* C1: round trip.  After a successful map_at, try_page_attributes on      *)
(* every page of the virtual region succeeds and returns exactly the       *)
(* AttributeFields passed to map_at (memory class, access permission and   *)
(* executable flag).                                                       *)
(***************************************************************************)
C1_RoundTrip ==
    (tt_last.op = "map_at" /\ tt_last.res = OkRes) =>
        \A a \in as_range(tt_last.virt) :
            LET r == try_page_attributes(lvl3, a)
            IN  r.res = OkRes /\ r.attr = tt_last.attr

(***************************************************************************)
(* C2: a map_at whose virtual region contains a page with an already valid *)
(* descriptor fails and leaves every level-3 descriptor as it was,         *)
(* including those of earlier, not yet mapped pages of the region.         *)
(***************************************************************************)
IsMapAtStep == tt_calls' = tt_calls + 1 /\ tt_last'.op = "map_at" /\ ~tt_halted'

HasValidPage(tbl, region) ==
    \E a \in as_range(region) :
        LET g == get_descriptor(tbl, a) IN g.res = OkRes /\ is_valid(g.desc)

C2_FailedMapAtLeavesTable ==
    [][(IsMapAtStep /\ HasValidPage(lvl3, tt_last'.virt)) =>
           (tt_last'.res # OkRes /\ lvl3' = lvl3)]_vars

(***************************************************************************)
(* C3: map-once.  In every step of init, map_at and try_page_attributes a  *)
(* level-3 descriptor that is valid keeps its value (and so stays valid).  *)
(***************************************************************************)
C3_MapOnce ==
    [][\A i \in TableIdx, j \in EntryIdx :
           is_valid(lvl3[i][j]) => lvl3'[i][j] = lvl3[i][j]]_vars

(* A map_at has hit an already valid descriptor and been refused.          *)
C3_Witness ==
    /\ tt_last.op = "map_at"
    /\ tt_last.res = "Virtual page is already mapped"
    /\ HasValidPage(lvl3, tt_last.virt)

(***************************************************************************)
(* C22: a map_at call whose virtual and physical regions differ in size,   *)
(* or whose physical region extends past the end of the physical address   *)
(* space, fails and leaves every descriptor of the table as it was.        *)
(***************************************************************************)
C22_BadRegionsRefused ==
    [][(IsMapAtStep /\ (\/ size(tt_last'.virt) # size(tt_last'.phys)
                        \/ tt_last'.phys.end_exclusive > phys_addr_space_end_exclusive_addr)) =>
           (tt_last'.res # OkRes /\ lvl3' = lvl3 /\ lvl2' = lvl2)]_vars

(* A map_at of equally sized regions has been refused for its physical     *)
(* region, on a table that already maps a page.                            *)
C22_Witness ==
    /\ tt_last.op = "map_at"
    /\ tt_last.res = "Tried to map outside of physical address space"
    /\ size(tt_last.virt) = size(tt_last.phys)
    /\ tt_last.phys.end_exclusive > phys_addr_space_end_exclusive_addr
    /\ \E i \in TableIdx, j \in EntryIdx : is_valid(lvl3[i][j])

(***************************************************************************)
(* C23: map_at on a table on which init has not run halts the kernel and   *)
(* writes no descriptor; it returns neither an error nor success.          *)
(***************************************************************************)
C23_MapAtBeforeInitHalts ==
    [][(tt_calls' = tt_calls + 1 /\ tt_last'.op = "map_at" /\ ~initialized) =>
           (tt_halted' /\ tt_last'.res = "panic" /\ lvl3' = lvl3 /\ lvl2' = lvl2
            /\ ~initialized')]_vars

(* map_at was the first call on a new table and the kernel has halted.     *)
C23_Witness ==
    /\ tt_halted
    /\ tt_last.op = "map_at"
    /\ ~initialized
    /\ lvl3 = lvl3_new

(***************************************************************************)
(* C24: init is idempotent.  The first init makes every level-2 descriptor *)
(* a valid table descriptor pointing at the physical start of the level-3  *)
(* block with the same index and sets the initialized flag; a later init,  *)
(* also after pages were mapped, changes no level-2 descriptor, no level-3 *)
(* descriptor and not the flag.                                            *)
(***************************************************************************)
C24_InitIdempotent ==
    [][(tt_last'.op = "init" /\ ~tt_halted) =>
           /\ initialized'
           /\ lvl3' = lvl3
           /\ \A i \in TableIdx :
                 lvl2'[i] = [NEXT_LEVEL_TABLE_ADDR_64KiB |-> TableBasePage + i,
                             TYPE |-> 1, VALID |-> 1]
           /\ initialized => lvl2' = lvl2]_vars

(* init has been called again on a table that maps a page.                 *)
C24_Witness ==
    /\ tt_last.op = "init"
    /\ initialized
    /\ \E i \in TableIdx, j \in EntryIdx : is_valid(lvl3[i][j])

(* The level-3 slots <<window, slot>> whose descriptor a step changes, and *)
(* the slots of the k pages from page-aligned virtual address A on: page p *)
(* of the address space is slot p mod EntriesPerTable of window            *)
(* p div EntriesPerTable.                                                  *)
ChangedSlots == { ij \in TableIdx \X EntryIdx : lvl3'[ij[1]][ij[2]] # lvl3[ij[1]][ij[2]] }

SlotsOf(A, k) ==
    { << ((A \div KernelGranule_SIZE) + t) \div EntriesPerTable,
         ((A \div KernelGranule_SIZE) + t) % EntriesPerTable >> : t \in 0 .. (k - 1) }

(***************************************************************************)
(* C25: with a 1 GiB address space and 64 KiB granule the table has        *)
(* exactly 2 level-2 windows, and a successful map_at of a k-page region   *)
(* at page-aligned virtual address A makes valid exactly the k level-3     *)
(* slots from window A div 512 MiB, slot (A mod 512 MiB) div 64 KiB on,    *)
(* contiguously and continuing at slot 0 of the next window, and changes   *)
(* no other slot; two pages at virtual address 0 occupy exactly slots 0    *)
(* and 1 of window 0.                                                      *)
(***************************************************************************)
C25_MapAtOccupiesExactSlots ==
    /\ [](/\ NUM_TABLES = Pow2(KernelVirtAddrSpace_SIZE_SHIFT - MS512MiB_SHIFT)
          /\ DOMAIN lvl2 = 0 .. 1
          /\ DOMAIN lvl3 = 0 .. 1)
    /\ [][(IsMapAtStep /\ tt_last'.res = OkRes) =>
              /\ ChangedSlots = SlotsOf(tt_last'.virt.start, num_pages(tt_last'.virt))
              /\ \A ij \in ChangedSlots :
                    ~is_valid(lvl3[ij[1]][ij[2]]) /\ is_valid(lvl3'[ij[1]][ij[2]])
              /\ (tt_last'.virt = MemoryRegion(0, 2 * KernelGranule_SIZE)) =>
                     ChangedSlots = {<<0, 0>>, <<0, 1>>}]_vars

(* A two-page map_at across the window boundary has succeeded: the last    *)
(* slot of window 0 and slot 0 of window 1 are valid.                      *)
C25_Witness ==
    /\ tt_last.op = "map_at"
    /\ tt_last.res = OkRes
    /\ tt_last.virt = MemoryRegion((EntriesPerTable - 1) * KernelGranule_SIZE,
                                   (EntriesPerTable + 1) * KernelGranule_SIZE)
    /\ is_valid(lvl3[0][EntriesPerTable - 1])
    /\ is_valid(lvl3[1][0])

(***************************************************************************)
(* C30: every valid page descriptor in the table has the access flag set,  *)
(* UXN set and the page type; its AP field is kernel-only (0b00 RW_EL1 or  *)
(* 0b10 RO_EL1, never an EL0-accessible encoding); its memory class is     *)
(* AttrIndx 1 with inner-shareable (0b11) or AttrIndx 0 with               *)
(* outer-shareable (0b10).  A descriptor that map_at writes has PXN set    *)
(* exactly when the mapping was requested non-executable, the normal       *)
(* class for CacheableDRAM and the device class for Device, and RO_EL1 or  *)
(* RW_EL1 as requested.                                                    *)
(***************************************************************************)
C30_DescriptorEncoding ==
    /\ [](\A i \in TableIdx, j \in EntryIdx :
             is_valid(lvl3[i][j]) =>
                /\ lvl3[i][j].AF = 1
                /\ lvl3[i][j].UXN = 1
                /\ lvl3[i][j].TYPE = 1
                /\ lvl3[i][j].AP \in {0, 2}
                /\ \/ lvl3[i][j].AttrIndx = 1 /\ lvl3[i][j].SH = 3
                   \/ lvl3[i][j].AttrIndx = 0 /\ lvl3[i][j].SH = 2)
    /\ [][IsMapAtStep =>
              \A i \in TableIdx, j \in EntryIdx :
                 lvl3'[i][j] # lvl3[i][j] =>
                    /\ is_valid(lvl3'[i][j])
                    /\ (lvl3'[i][j].PXN = 1) = ~tt_last'.attr.executable
                    /\ (lvl3'[i][j].PXN = 0) = tt_last'.attr.executable
                    /\ (tt_last'.attr.mem_attributes = "CacheableDRAM") =>
                           (lvl3'[i][j].AttrIndx = 1 /\ lvl3'[i][j].SH = 3)
                    /\ (tt_last'.attr.mem_attributes = "Device") =>
                           (lvl3'[i][j].AttrIndx = 0 /\ lvl3'[i][j].SH = 2)
                    /\ (tt_last'.attr.acc_perms = "ReadOnly") => lvl3'[i][j].AP = 2
                    /\ (tt_last'.attr.acc_perms = "ReadWrite") => lvl3'[i][j].AP = 0]_vars

(* The table holds an executable read-only DRAM page and a                 *)
(* non-executable read-write device page.                                  *)
C30_Witness ==
    /\ \E i \in TableIdx, j \in EntryIdx :
          /\ is_valid(lvl3[i][j])
          /\ lvl3[i][j].PXN = 0 /\ lvl3[i][j].AP = 2 /\ lvl3[i][j].AttrIndx = 1
    /\ \E i \in TableIdx, j \in EntryIdx :
          /\ is_valid(lvl3[i][j])
          /\ lvl3[i][j].PXN = 1 /\ lvl3[i][j].AP = 0 /\ lvl3[i][j].AttrIndx = 0

(***************************************************************************)
(* PageAddress::checked_offset and MemoryRegion::take_first_n_pages.       *)
(* usize values are 0 .. WordModulus-1; None is -1.                        *)
(***************************************************************************)
MaxAllocs == 3
PoolPages == 3

None == -1

(* `count as isize`: the two's-complement reading of a usize.              *)
as_isize(count) == IF count >= WordModulus \div 2 THEN count - WordModulus ELSE count

unsigned_abs(count) == IF count < 0 THEN -count ELSE count

checked_mul(a, b) == IF a * b >= WordModulus THEN None ELSE a * b
checked_add(a, b) == IF a + b >= WordModulus THEN None ELSE a + b
checked_sub(a, b) == IF a - b < 0 THEN None ELSE a - b

checked_offset_add_only(addr, count) ==
    IF count = 0 THEN addr
    ELSE LET delta == checked_mul(unsigned_abs(count), KernelGranule_SIZE)
         IN  IF delta = None THEN None
             ELSE checked_add(addr, delta)

checked_offset(addr, count) ==
    IF count = 0 THEN addr
    ELSE LET delta == checked_mul(unsigned_abs(count), KernelGranule_SIZE)
         IN  IF delta = None THEN None
             ELSE IF count > 0 THEN checked_add(addr, delta)
             ELSE checked_sub(addr, delta)

take_first_n_pages(pool, n) ==
    LET left_end_exclusive == checked_offset(pool.start, as_isize(n))
    IN  IF left_end_exclusive = None
        THEN [res |-> "Overflow while calculating left_end_exclusive",
              allocation |-> MemoryRegion(0, 0), pool |-> pool]
        ELSE IF left_end_exclusive > pool.end_exclusive
        THEN [res |-> "Not enough free pages",
              allocation |-> MemoryRegion(0, 0), pool |-> pool]
        ELSE [res |-> OkRes,
              allocation |-> MemoryRegion(pool.start, left_end_exclusive),
              pool |-> MemoryRegion(left_end_exclusive, pool.end_exclusive)]

(***************************************************************************)
(* PageAddress::checked_offset called on its own result: a page address    *)
(* offset by count, and the result offset by -count.  A page address is    *)
(* granule-aligned (From<usize> asserts it); count is any isize.           *)
(***************************************************************************)
PageAddresses == { p * KernelGranule_SIZE : p \in 0 .. (WordModulus \div KernelGranule_SIZE) - 1 }
IsizeValues == (0 - WordModulus \div 2) .. (WordModulus \div 2 - 1)

COInit ==
    /\ co_addr \in PageAddresses
    /\ co_count \in IsizeValues
    /\ co_pc = "new"
    /\ co_there = None
    /\ co_back = None

(* No page address is being offset.                                        *)
CORest ==
    /\ co_addr = 0
    /\ co_count = 0
    /\ co_pc = "new"
    /\ co_there = None
    /\ co_back = None

(* self.checked_offset(count)                                              *)
CO_checked_offset ==
    /\ co_pc = "new"
    /\ co_there' = checked_offset(co_addr, co_count)
    /\ co_pc' = "there"
    /\ UNCHANGED <<co_addr, co_count, co_back>>
    /\ UNCHANGED coOthers

(* .checked_offset(-count) on the Some(_) the first call returned          *)
CO_checked_offset_back ==
    /\ co_pc = "there"
    /\ co_there # None
    /\ co_back' = checked_offset(co_there, 0 - co_count)
    /\ co_pc' = "back"
    /\ UNCHANGED <<co_addr, co_count, co_there>>
    /\ UNCHANGED coOthers

(***************************************************************************)
(* C26: checked_offset by 0 returns the page address itself, and           *)
(* offsetting by k and then by -k returns the original page address        *)
(* whenever neither step overflows.                                        *)
(***************************************************************************)
C26_OffsetRoundTrip ==
    /\ (co_pc # "new" /\ co_count = 0) => co_there = co_addr
    /\ (co_pc = "back" /\ co_back # None) => co_back = co_addr

(* A page address moved two pages down and back up again.                  *)
C26_Witness ==
    /\ co_pc = "back"
    /\ co_count = 0 - 2
    /\ co_addr = 3 * KernelGranule_SIZE
    /\ co_there = KernelGranule_SIZE
    /\ co_back = co_addr

(***************************************************************************)
(* PageAllocator: pool is Option<MemoryRegion>.  pa_allocs lists what the  *)
(* successful alloc calls returned, in order; pa_origin is the pool that   *)
(* init stored.                                                            *)
(***************************************************************************)
NoPool == [is_some |-> FALSE, region |-> MemoryRegion(0, 0)]
PANoCall == [op |-> "none", n |-> 0, res |-> "none"]

(* PageAllocator::new                                                      *)
PAInit ==
    /\ pa_pool = NoPool
    /\ pa_last = PANoCall
    /\ pa_allocs = <<>>
    /\ pa_origin = MemoryRegion(0, 0)

(* Pools init may be given: PoolPages pages from page 0 or from page 2.    *)
PoolStartPages == {0, 2}
PoolRegions ==
    { MemoryRegion(s * KernelGranule_SIZE, (s + PoolPages) * KernelGranule_SIZE) :
        s \in PoolStartPages }

(* Every non-zero value of the word.                                       *)
NonZeroUsize == 1 .. (WordModulus - 1)

PageAllocator_init_overwrite(cur, pool) == [is_some |-> TRUE, region |-> pool]

PageAllocator_init(cur, pool) == IF cur.is_some THEN cur ELSE [is_some |-> TRUE, region |-> pool]

PA_init ==
    /\ \E pool \in PoolRegions :
          /\ pa_pool' = PageAllocator_init(pa_pool, pool)
          /\ pa_origin' = IF pa_pool.is_some THEN pa_origin ELSE pool
    /\ pa_last' = [op |-> "init", n |-> 0, res |-> OkRes]
    /\ UNCHANGED pa_allocs
    /\ UNCHANGED paOthers

PA_alloc ==
    /\ Len(pa_allocs) < MaxAllocs
    /\ \E n \in NonZeroUsize :
          IF ~pa_pool.is_some
          THEN /\ pa_last' = [op |-> "alloc", n |-> n, res |-> "Allocator not initialized"]
               /\ UNCHANGED <<pa_pool, pa_allocs>>
          ELSE LET r == take_first_n_pages(pa_pool.region, n)
               IN  /\ pa_pool' = [is_some |-> TRUE, region |-> r.pool]
                   /\ pa_last' = [op |-> "alloc", n |-> n, res |-> r.res]
                   /\ pa_allocs' = IF r.res = OkRes
                                   THEN Append(pa_allocs, [n |-> n, region |-> r.allocation])
                                   ELSE pa_allocs
    /\ UNCHANGED pa_origin
    /\ UNCHANGED paOthers

(***************************************************************************)
(* C4: on an initialized pool, a take_first_n_pages(n) call with any       *)
(* non-zero n of the machine word succeeds if and only if n is at most the *)
(* number of pages remaining in the pool at that moment.                   *)
(***************************************************************************)
IsAllocStep == pa_last'.op = "alloc" /\ pa_pool.is_some

C4_SucceedsIffFits ==
    [][IsAllocStep =>
           ((pa_last'.res = OkRes) <=> (pa_last'.n <= num_pages(pa_pool.region)))]_vars

(***************************************************************************)
(* C5: the regions returned by successful allocations each hold exactly    *)
(* the requested number of pages, are contiguous in request order starting *)
(* at the pool's original start, are pairwise disjoint, and none extends   *)
(* past the pool's original exclusive end.                                 *)
(***************************************************************************)
Disjoint(r1, r2) == r1.end_exclusive <= r2.start \/ r2.end_exclusive <= r1.start

C5_AllocationsDisjointContiguous ==
    /\ \A i \in 1 .. Len(pa_allocs) :
          /\ num_pages(pa_allocs[i].region) = pa_allocs[i].n
          /\ pa_allocs[i].region.start =
                 (IF i = 1 THEN pa_origin.start ELSE pa_allocs[i - 1].region.end_exclusive)
          /\ pa_allocs[i].region.end_exclusive <= pa_origin.end_exclusive
    /\ \A i, j \in 1 .. Len(pa_allocs) :
          i < j => Disjoint(pa_allocs[i].region, pa_allocs[j].region)

(***************************************************************************)
(* C20: the pool is set exactly once.  An init on an initialized allocator *)
(* leaves the pool as it was, shrinkage from earlier allocations included, *)
(* and an alloc on an allocator that was never initialized fails and       *)
(* leaves it uninitialized.                                                *)
(***************************************************************************)
C20_PoolSetOnce ==
    [][/\ (pa_last'.op = "init" /\ pa_pool.is_some) => pa_pool' = pa_pool
       /\ (pa_last'.op = "init" /\ ~pa_pool.is_some) =>
              (pa_pool'.is_some /\ pa_pool'.region = pa_origin')
       /\ (pa_last'.op = "alloc" /\ ~pa_pool.is_some) =>
              (pa_last'.res = "Allocator not initialized" /\ pa_pool' = NoPool)]_vars

(* An init has been called on a pool that allocations had shrunk, and the  *)
(* pool is still the shrunken one.                                         *)
C20_Witness ==
    /\ pa_last.op = "init"
    /\ Len(pa_allocs) > 0
    /\ pa_pool.is_some
    /\ pa_pool.region.start = pa_allocs[Len(pa_allocs)].region.end_exclusive
    /\ pa_pool.region # pa_origin

(***************************************************************************)
(* C21: once initialized, the pool only shrinks.  For every alloc call     *)
(* with every non-zero request size the pool's exclusive end stays, its    *)
(* start does not move to a lower address, its page count does not grow,   *)
(* and a failed alloc leaves the pool as it was.                           *)
(***************************************************************************)
C21_PoolOnlyShrinks ==
    [][IsAllocStep =>
           /\ pa_pool'.is_some
           /\ pa_pool'.region.end_exclusive = pa_pool.region.end_exclusive
           /\ pa_pool'.region.start >= pa_pool.region.start
           /\ num_pages(pa_pool'.region) <= num_pages(pa_pool.region)
           /\ (pa_last'.res # OkRes => pa_pool' = pa_pool)]_vars

(***************************************************************************)
(* MappingRecords: inner is [Option<MappingRecordEntry>; MAX_MAPPINGS],    *)
(* indexed from 1; an entry's users are [Option<&str>; 5].                 *)
(***************************************************************************)
MAX_MAPPINGS == 20
MAX_USERS == 5

NoUser == "None"

NoEntry ==
    [is_some |-> FALSE, users |-> [k \in 1 .. MAX_USERS |-> NoUser], phys_start_addr |-> 0,
     virt_start_addr |-> 0, num_pages |-> 0, attribute_fields |-> NoAttr]

MappingRecordEntry_new(name, virt_region, phys_region, attr) ==
    [is_some |-> TRUE,
     users |-> [k \in 1 .. MAX_USERS |-> IF k = 1 THEN name ELSE NoUser],
     phys_start_addr |-> phys_region.start,
     virt_start_addr |-> virt_region.start,
     num_pages |-> num_pages(phys_region),
     attribute_fields |-> attr]

MappingRecords_new == [i \in 1 .. MAX_MAPPINGS |-> NoEntry]

(* The least index satisfying P, 0 if there is none: Iterator::find.       *)
FirstIndex(S) == IF S = {} THEN 0 ELSE CHOOSE i \in S : \A j \in S : i <= j

find_next_free_user(entry) == FirstIndex({ k \in 1 .. MAX_USERS : entry.users[k] = NoUser })

add_user_overwrite_last(entry, user) ==
    LET k == find_next_free_user(entry)
    IN  [res |-> OkRes, entry |-> [entry EXCEPT !.users[IF k = 0 THEN MAX_USERS ELSE k] = user]]

add_user(entry, user) ==
    LET k == find_next_free_user(entry)
    IN  IF k = 0 THEN [res |-> "Storage for user info exhausted", entry |-> entry]
        ELSE [res |-> OkRes, entry |-> [entry EXCEPT !.users[k] = user]]

MappingRecords_size(inner) == Cardinality({ i \in 1 .. MAX_MAPPINGS : inner[i].is_some })

is_sorted_by_key(inner, n) ==
    \A i \in 1 .. (n - 1) : inner[i].virt_start_addr <= inner[i + 1].virt_start_addr

(* Insertion of inner[k] into the sorted inner[1..k-1], shifting left past *)
(* strictly greater keys: the insertion sort that sort_unstable_by_key     *)
(* runs on a slice of at most 20 elements.                                 *)
RECURSIVE insert_tail(_, _)
insert_tail(inner, k) ==
    IF k > 1 /\ inner[k].virt_start_addr < inner[k - 1].virt_start_addr
    THEN insert_tail([inner EXCEPT ![k - 1] = inner[k], ![k] = inner[k - 1]], k - 1)
    ELSE inner

RECURSIVE insertion_sort(_, _, _)
insertion_sort(inner, k, n) ==
    IF k > n THEN inner ELSE insertion_sort(insert_tail(inner, k), k + 1, n)

MappingRecords_sort_skipped(inner) == [res |-> OkRes, inner |-> inner]

(* sort: item.unwrap() panics on a None inside the first size() slots.     *)
MappingRecords_sort(inner) ==
    LET upper_bound_exclusive == MappingRecords_size(inner)
    IN  IF \E i \in 1 .. upper_bound_exclusive : ~inner[i].is_some
        THEN [res |-> "panic", inner |-> inner]
        ELSE IF is_sorted_by_key(inner, upper_bound_exclusive)
        THEN [res |-> OkRes, inner |-> inner]
        ELSE [res |-> OkRes, inner |-> insertion_sort(inner, 2, upper_bound_exclusive)]

find_next_free(inner) == FirstIndex({ i \in 1 .. MAX_MAPPINGS : ~inner[i].is_some })

find_device_record_any_class(inner, phys_region) ==
    FirstIndex({ i \in 1 .. MAX_MAPPINGS :
                   /\ inner[i].is_some
                   /\ inner[i].phys_start_addr = phys_region.start
                   /\ inner[i].num_pages = num_pages(phys_region) })

(* The index of the entry found, 0 for None.                               *)
find_device_record(inner, phys_region) ==
    FirstIndex({ i \in 1 .. MAX_MAPPINGS :
                   /\ inner[i].is_some
                   /\ inner[i].attribute_fields.mem_attributes = "Device"
                   /\ inner[i].phys_start_addr = phys_region.start
                   /\ inner[i].num_pages = num_pages(phys_region) })

MappingRecords_add_overwrite_last(inner, name, virt_region, phys_region, attr) ==
    LET x == find_next_free(inner)
        slot == IF x = 0 THEN MAX_MAPPINGS ELSE x
    IN  MappingRecords_sort(
            [inner EXCEPT ![slot] = MappingRecordEntry_new(name, virt_region, phys_region, attr)])

MappingRecords_add(inner, name, virt_region, phys_region, attr) ==
    LET x == find_next_free(inner)
    IN  IF x = 0 THEN [res |-> "Storage for mapping info exhausted", inner |-> inner]
        ELSE MappingRecords_sort(
                 [inner EXCEPT ![x] = MappingRecordEntry_new(name, virt_region, phys_region, attr)])

(* kernel_try_add_device_record_mmio_user on the record's physical region: *)
(* the entry found gets the user; a full user list is only a warning.      *)
try_add_device_record_mmio_user(inner, new_user, phys_region) ==
    LET i == find_device_record(inner, phys_region)
    IN  IF i = 0 THEN [found |-> 0, inner |-> inner]
        ELSE [found |-> i, inner |-> [inner EXCEPT ![i] = add_user(inner[i], new_user).entry]]

MRNoCall == [op |-> "none", res |-> "none", phys |-> MemoryRegion(0, 0), found |-> 0]

MRInit ==
    /\ mr_inner = MappingRecords_new
    /\ mr_last = MRNoCall
    /\ mr_halted = FALSE

(* The mappings the callers record: name, virtual start page, physical     *)
(* start page, pages, memory class.                                        *)
PageRegion(p, n) == MemoryRegion(p * KernelGranule_SIZE, (p + n) * KernelGranule_SIZE)

Mappings ==
    { [name |-> "uart",  virt |-> PageRegion(3, 1), phys |-> PageRegion(1, 1), mem |-> "Device"],
      [name |-> "heap",  virt |-> PageRegion(1, 1), phys |-> PageRegion(1, 1), mem |-> "CacheableDRAM"],
      [name |-> "gpio",  virt |-> PageRegion(2, 2), phys |-> PageRegion(1, 2), mem |-> "Device"] }

PhysQueries == { PageRegion(1, 1), PageRegion(2, 1) }
NewUsers == {"timer"}

MR_add ==
    /\ ~mr_halted
    /\ \E m \in Mappings :
          LET attr == [mem_attributes |-> m.mem, acc_perms |-> "ReadWrite", executable |-> FALSE]
              r == MappingRecords_add(mr_inner, m.name, m.virt, m.phys, attr)
          IN  /\ mr_inner' = r.inner
              /\ mr_halted' = (r.res = "panic")
              /\ mr_last' = [op |-> "add", res |-> r.res, phys |-> m.phys, found |-> 0]
    /\ UNCHANGED mrOthers

MR_find_device_record ==
    /\ ~mr_halted
    /\ \E q \in PhysQueries, u \in NewUsers :
          LET r == try_add_device_record_mmio_user(mr_inner, u, q)
          IN  /\ mr_inner' = r.inner
              /\ mr_last' = [op |-> "find_device_record",
                             res |-> IF r.found = 0 THEN "None" ELSE "Some",
                             phys |-> q, found |-> r.found]
    /\ UNCHANGED mr_halted
    /\ UNCHANGED mrOthers

(***************************************************************************)
(* C6: find_device_record(phys_region) returns an entry only if it is an   *)
(* added entry of class Device whose physical start and page count equal   *)
(* those of phys_region; a CacheableDRAM entry with the same start and     *)
(* count is never returned.                                                *)
(***************************************************************************)
C6_FindOnlyDeviceExactMatch ==
    (mr_last.op = "find_device_record" /\ mr_last.found # 0) =>
        LET e == mr_inner[mr_last.found]
        IN  /\ e.is_some
            /\ e.attribute_fields.mem_attributes = "Device"
            /\ e.phys_start_addr = mr_last.phys.start
            /\ e.num_pages = num_pages(mr_last.phys)

(* A Device entry was found although a CacheableDRAM entry with the same   *)
(* physical start and page count is stored before it.                      *)
C6_Witness ==
    /\ mr_last.op = "find_device_record"
    /\ mr_last.found # 0
    /\ \E i \in 1 .. (mr_last.found - 1) :
          /\ mr_inner[i].is_some
          /\ mr_inner[i].attribute_fields.mem_attributes = "CacheableDRAM"
          /\ mr_inner[i].phys_start_addr = mr_last.phys.start
          /\ mr_inner[i].num_pages = num_pages(mr_last.phys)

(***************************************************************************)
(* C7: an add on a record that holds MAX_MAPPINGS entries fails with the   *)
(* storage-exhausted error and leaves the record as it was: the same       *)
(* entries in the same order with the same user lists.                     *)
(***************************************************************************)
C7_AddToFullRecordFails ==
    [][(MappingRecords_size(mr_inner) = MAX_MAPPINGS /\ mr_last'.op = "add") =>
           (mr_last'.res = "Storage for mapping info exhausted" /\ mr_inner' = mr_inner)]_vars

(* An add has been refused on a full record that holds shared entries.     *)
C7_Witness ==
    /\ MappingRecords_size(mr_inner) = MAX_MAPPINGS
    /\ mr_last.op = "add"
    /\ mr_last.res = "Storage for mapping info exhausted"
    /\ \E i \in 1 .. MAX_MAPPINGS : mr_inner[i].users[2] # NoUser

(***************************************************************************)
(* C18: after every successful add, for any order of insertion, the live   *)
(* entries of the record occupy a contiguous prefix of the storage and are *)
(* ordered by virtual start address ascending.                             *)
(***************************************************************************)
LivePrefixSorted(inner) ==
    LET n == MappingRecords_size(inner)
    IN  /\ \A i \in 1 .. MAX_MAPPINGS : inner[i].is_some <=> i <= n
        /\ \A i \in 1 .. (n - 1) : inner[i].virt_start_addr <= inner[i + 1].virt_start_addr

C18_LiveEntriesSortedPrefix ==
    (mr_last.op = "add" /\ mr_last.res = OkRes) => LivePrefixSorted(mr_inner)

(* An add has succeeded on a record that holds three different virtual     *)
(* start addresses (added in every order the callers can add them in).     *)
C18_Witness ==
    /\ mr_last.op = "add"
    /\ mr_last.res = OkRes
    /\ Cardinality({ mr_inner[i].virt_start_addr :
                       i \in { j \in 1 .. MAX_MAPPINGS : mr_inner[j].is_some } }) = 3

(***************************************************************************)
(* Aarch64Mmu::enable_mmu_and_caching.  regs holds the system registers    *)
(* the function reads and writes; mmu_pc is the statement it is at.        *)
(***************************************************************************)
MaxOkReturns == 2

MAIR_reset == [Attr1_Normal_Outer |-> "reset", Attr1_Normal_Inner |-> "reset",
               Attr0_Device |-> "reset"]

MAIR_kernel ==
    [Attr1_Normal_Outer |-> "WriteBack_NonTransient_ReadWriteAlloc",
     Attr1_Normal_Inner |-> "WriteBack_NonTransient_ReadWriteAlloc",
     Attr0_Device |-> "nonGathering_nonReordering_EarlyWriteAck"]

TCR_reset == [TBI0 |-> "reset", IPS |-> "reset", TG0 |-> "reset", SH0 |-> "reset",
              ORGN0 |-> "reset", IRGN0 |-> "reset", EPD0 |-> "reset", A1 |-> "reset",
              T0SZ |-> 0, EPD1 |-> "reset"]

TCR_kernel ==
    [TBI0 |-> "Used", IPS |-> "Bits_40", TG0 |-> "KiB_64", SH0 |-> "Inner",
     ORGN0 |-> "WriteBack_ReadAlloc_WriteAlloc_Cacheable",
     IRGN0 |-> "WriteBack_ReadAlloc_WriteAlloc_Cacheable",
     EPD0 |-> "EnableTTBR0Walks", A1 |-> "TTBR0",
     T0SZ |-> 64 - KernelVirtAddrSpace_SIZE_SHIFT, EPD1 |-> "DisableTTBR1Walks"]

set_up_mair(r) == [r EXCEPT !.MAIR_EL1 = MAIR_kernel]
configure_translation_control(r) == [r EXCEPT !.TCR_EL1 = TCR_kernel]
set_baddr(r, phys_tables_base_addr) == [r EXCEPT !.TTBR0_EL1 = phys_tables_base_addr]
sctlr_enable(r) == [r EXCEPT !.SCTLR_EL1.M = 1, !.SCTLR_EL1.C = 1, !.SCTLR_EL1.I = 1]

is_enabled_never(r) == FALSE

is_enabled(r) == r.SCTLR_EL1.M = 1

(* The statements of enable_mmu_and_caching after its two guards, in       *)
(* program order: the statement that follows pc.                           *)
enable_next_without_barrier(pc) ==
    CASE pc = "set_up_mair" -> "set_baddr"
      [] pc = "set_baddr" -> "configure_translation_control"
      [] pc = "configure_translation_control" -> "sctlr_modify"
      [] pc = "isb_before_enable" -> "sctlr_modify"
      [] pc = "sctlr_modify" -> "isb_after_enable"
      [] pc = "isb_after_enable" -> "idle"

enable_next(pc) ==
    CASE pc = "set_up_mair" -> "set_baddr"
      [] pc = "set_baddr" -> "configure_translation_control"
      [] pc = "configure_translation_control" -> "isb_before_enable"
      [] pc = "isb_before_enable" -> "sctlr_modify"
      [] pc = "sctlr_modify" -> "isb_after_enable"
      [] pc = "isb_after_enable" -> "idle"

enable_entry_granule_unchecked(r) ==
    IF is_enabled(r) THEN "AlreadyEnabled"
    ELSE "proceed"

(* What the guards at the head of enable_mmu_and_caching decide.           *)
enable_entry(r) ==
    IF is_enabled(r) THEN "AlreadyEnabled"
    ELSE IF ~r.ID_AA64MMFR0_EL1.TGran64_Supported
    THEN "Translation granule not supported in HW"
    ELSE "proceed"

(* The registers the kernel finds: MMU and caches on or off, the 64 KiB    *)
(* granule supported or not, MAIR and TCR at reset values, TTBR0 holding   *)
(* nothing or what the firmware left in it.                                *)
MMUInit ==
    /\ regs \in [MAIR_EL1 : {MAIR_reset}, TCR_EL1 : {TCR_reset}, TTBR0_EL1 : {0, KernelGranule_SIZE},
                 SCTLR_EL1 : [M : {0, 1}, C : {0, 1}, I : {0, 1}],
                 ID_AA64MMFR0_EL1 : [TGran64_Supported : BOOLEAN]]
    /\ mmu_pc = "idle"
    /\ mmu_arg = 0
    /\ mmu_res = "none"
    /\ mmu_ok_count = 0
    /\ mmu_trace = <<>>

MMURest ==
    /\ regs = [MAIR_EL1 |-> MAIR_reset, TCR_EL1 |-> TCR_reset, TTBR0_EL1 |-> 0,
               SCTLR_EL1 |-> [M |-> 0, C |-> 0, I |-> 0],
               ID_AA64MMFR0_EL1 |-> [TGran64_Supported |-> TRUE]]
    /\ mmu_pc = "idle"
    /\ mmu_arg = 0
    /\ mmu_res = "none"
    /\ mmu_ok_count = 0
    /\ mmu_trace = <<>>

BaseAddrs == { phys_base_address, phys_base_address + KernelGranule_SIZE }

MMU_enable_mmu_and_caching ==
    /\ mmu_pc = "idle"
    /\ mmu_ok_count < MaxOkReturns
    /\ \E phys_tables_base_addr \in BaseAddrs :
          LET e == enable_entry(regs)
          IN  IF e = "proceed"
              THEN /\ mmu_pc' = "set_up_mair"
                   /\ mmu_arg' = phys_tables_base_addr
                   /\ mmu_res' = "running"
              ELSE /\ mmu_res' = e
                   /\ UNCHANGED <<mmu_pc, mmu_arg>>
    /\ mmu_trace' = <<>>
    /\ UNCHANGED <<regs, mmu_ok_count>>
    /\ UNCHANGED mmuOthers

MMU_set_up_mair ==
    /\ mmu_pc = "set_up_mair"
    /\ regs' = set_up_mair(regs)
    /\ mmu_trace' = Append(mmu_trace, "MAIR_EL1")
    /\ mmu_pc' = enable_next(mmu_pc)
    /\ UNCHANGED <<mmu_arg, mmu_res, mmu_ok_count>>
    /\ UNCHANGED mmuOthers

MMU_set_baddr ==
    /\ mmu_pc = "set_baddr"
    /\ regs' = set_baddr(regs, mmu_arg)
    /\ mmu_trace' = Append(mmu_trace, "TTBR0_EL1")
    /\ mmu_pc' = enable_next(mmu_pc)
    /\ UNCHANGED <<mmu_arg, mmu_res, mmu_ok_count>>
    /\ UNCHANGED mmuOthers

MMU_configure_translation_control ==
    /\ mmu_pc = "configure_translation_control"
    /\ regs' = configure_translation_control(regs)
    /\ mmu_trace' = Append(mmu_trace, "TCR_EL1")
    /\ mmu_pc' = enable_next(mmu_pc)
    /\ UNCHANGED <<mmu_arg, mmu_res, mmu_ok_count>>
    /\ UNCHANGED mmuOthers

MMU_isb_before_enable ==
    /\ mmu_pc = "isb_before_enable"
    /\ mmu_trace' = Append(mmu_trace, "isb")
    /\ mmu_pc' = enable_next(mmu_pc)
    /\ UNCHANGED <<regs, mmu_arg, mmu_res, mmu_ok_count>>
    /\ UNCHANGED mmuOthers

MMU_sctlr_modify ==
    /\ mmu_pc = "sctlr_modify"
    /\ regs' = sctlr_enable(regs)
    /\ mmu_trace' = Append(mmu_trace, "SCTLR_EL1")
    /\ mmu_pc' = enable_next(mmu_pc)
    /\ UNCHANGED <<mmu_arg, mmu_res, mmu_ok_count>>
    /\ UNCHANGED mmuOthers

MMU_isb_after_enable ==
    /\ mmu_pc = "isb_after_enable"
    /\ mmu_trace' = Append(mmu_trace, "isb")
    /\ mmu_pc' = enable_next(mmu_pc)
    /\ mmu_res' = OkRes
    /\ mmu_ok_count' = mmu_ok_count + 1
    /\ UNCHANGED <<regs, mmu_arg>>
    /\ UNCHANGED mmuOthers

(***************************************************************************)
(* C8: an enable_mmu_and_caching call made while the hardware reports      *)
(* translation enabled returns AlreadyEnabled and leaves every register    *)
(* (MAIR_EL1, TCR_EL1, TTBR0_EL1, SCTLR_EL1) as it was.                    *)
(***************************************************************************)
C8_SecondEnableWritesNothing ==
    [][(mmu_pc = "idle" /\ regs.SCTLR_EL1.M = 1) =>
           (regs' = regs /\ mmu_res' = "AlreadyEnabled" /\ mmu_pc' = "idle")]_vars

(* The call after a successful one has returned AlreadyEnabled.            *)
C8_Witness ==
    mmu_ok_count = 1 /\ mmu_res = "AlreadyEnabled" /\ regs.MAIR_EL1 = MAIR_kernel

(***************************************************************************)
(* C9: the MMU is one-shot.  At most one enable_mmu_and_caching call ever  *)
(* returns success, and once translation is enabled it stays enabled.      *)
(***************************************************************************)
C9_OneShot ==
    /\ [](mmu_ok_count <= 1)
    /\ [][regs.SCTLR_EL1.M = 1 => regs'.SCTLR_EL1.M = 1]_vars

(* A call has taken the MMU from Disabled to Enabled and returned Ok.      *)
C9_Witness ==
    mmu_ok_count = 1 /\ mmu_res = OkRes /\ mmu_pc = "idle" /\ regs.SCTLR_EL1.M = 1


(***************************************************************************)
(* C28: enable_mmu_and_caching called while translation is disabled on     *)
(* hardware that does not support the 64 KiB granule returns the platform  *)
(* error "Translation granule not supported in HW", writes no register,    *)
(* and the MMU stays disabled.                                             *)
(***************************************************************************)
C28_UnsupportedGranuleRefused ==
    [][(mmu_pc = "idle" /\ regs.SCTLR_EL1.M = 0
        /\ ~regs.ID_AA64MMFR0_EL1.TGran64_Supported) =>
           /\ mmu_res' = "Translation granule not supported in HW"
           /\ regs' = regs
           /\ mmu_trace' = <<>>
           /\ mmu_pc' = "idle"
           /\ ~is_enabled(regs')]_vars

(* A call on such hardware has returned the error; the registers hold      *)
(* their reset values.                                                     *)
C28_Witness ==
    /\ mmu_res = "Translation granule not supported in HW"
    /\ ~regs.ID_AA64MMFR0_EL1.TGran64_Supported
    /\ regs.SCTLR_EL1.M = 0
    /\ regs.MAIR_EL1 = MAIR_reset
    /\ regs.TCR_EL1 = TCR_reset

(* Positions of an event in the trace of the latest call.                  *)
TracePositions(ev) == { i \in DOMAIN mmu_trace : mmu_trace[i] = ev }

(***************************************************************************)
(* C29: in an enable_mmu_and_caching call that passes its guards, MAIR,    *)
(* TCR and TTBR0 (set to the given base address) are all written before    *)
(* the barrier, the barrier precedes the single SCTLR write that turns on  *)
(* translation and data/instruction caching together, a trailing barrier   *)
(* follows it, and no configuration register is written after translation  *)
(* is enabled.                                                             *)
(***************************************************************************)
C29_EnableOrder ==
    /\ [](\A s \in TracePositions("SCTLR_EL1") :
             /\ TracePositions("SCTLR_EL1") = {s}
             /\ s > 1 /\ mmu_trace[s - 1] = "isb"
             /\ \A cfg \in {"MAIR_EL1", "TCR_EL1", "TTBR0_EL1"} :
                   /\ TracePositions(cfg) # {}
                   /\ \A c \in TracePositions(cfg) : c < s - 1
             /\ (mmu_res = OkRes) =>
                    (Len(mmu_trace) = s + 1 /\ mmu_trace[s + 1] = "isb"))
    /\ [][(regs'.SCTLR_EL1 # regs.SCTLR_EL1) =>
              /\ regs.SCTLR_EL1.M = 0
              /\ regs'.SCTLR_EL1 = [M |-> 1, C |-> 1, I |-> 1]
              /\ regs.MAIR_EL1 = MAIR_kernel
              /\ regs.TCR_EL1 = TCR_kernel
              /\ regs.TTBR0_EL1 = mmu_arg]_vars
    /\ [][is_enabled(regs) =>
              /\ regs'.MAIR_EL1 = regs.MAIR_EL1
              /\ regs'.TCR_EL1 = regs.TCR_EL1
              /\ regs'.TTBR0_EL1 = regs.TTBR0_EL1]_vars
    /\ [](mmu_res = OkRes => TracePositions("SCTLR_EL1") # {})

(* A call has run to its end on hardware whose TTBR0 held another value.   *)
C29_Witness ==
    /\ mmu_res = OkRes
    /\ mmu_trace = <<"MAIR_EL1", "TTBR0_EL1", "TCR_EL1", "isb", "SCTLR_EL1", "isb">>
    /\ regs.SCTLR_EL1 = [M |-> 1, C |-> 1, I |-> 1]
    /\ regs.TTBR0_EL1 = phys_base_address + KernelGranule_SIZE

(***************************************************************************)
(* InitStateLock.  kernel_state is the state manager's lifecycle state,    *)
(* DAIF the executing core's interrupt mask bits (I = 1: IRQs masked),     *)
(* lk_data the data the lock wraps.                                        *)
(***************************************************************************)
DataValues == 0 .. 5

(* state_manager().is_init()                                               *)
is_init(s) == s = "Init"

Irq_is_set(daif) == daif.I = 1

local_irq_enabled_when_unmasked(daif) == ~Irq_is_set(daif)

local_irq_enabled(daif) == Irq_is_set(daif)

(* InitStateLock::write with the closure |data| *data = v: the two asserts *)
(* panic, otherwise the closure runs on the data.                          *)
InitStateLock_write(s, daif, data, v) ==
    IF ~is_init(s) THEN [res |-> "panic", data |-> data]
    ELSE IF ~local_irq_enabled(daif) THEN [res |-> "panic", data |-> data]
    ELSE [res |-> "ran", data |-> v]

(* The boot core enters kernel_init with all of DAIF masked.               *)
LKInit ==
    /\ kernel_state = "Init"
    /\ DAIF = [D |-> 1, A |-> 1, I |-> 1, F |-> 1]
    /\ lk_data = 0
    /\ lk_last = [op |-> "none", res |-> "none", val |-> 0]
    /\ lk_halted = FALSE

LK_write ==
    /\ ~lk_halted
    /\ \E v \in DataValues :
          LET r == InitStateLock_write(kernel_state, DAIF, lk_data, v)
          IN  /\ lk_data' = r.data
              /\ lk_halted' = (r.res = "panic")
              /\ lk_last' = [op |-> "write", res |-> r.res, val |-> v]
    /\ UNCHANGED <<kernel_state, DAIF>>
    /\ UNCHANGED lkOthers

LK_read ==
    /\ ~lk_halted
    /\ lk_last' = [op |-> "read", res |-> "ran", val |-> lk_data]
    /\ UNCHANGED <<kernel_state, DAIF, lk_data, lk_halted>>
    /\ UNCHANGED lkOthers

LK_local_irq_unmask ==
    /\ ~lk_halted
    /\ DAIF' = [DAIF EXCEPT !.I = 0]
    /\ lk_last' = [op |-> "local_irq_unmask", res |-> "ran", val |-> 0]
    /\ UNCHANGED <<kernel_state, lk_data, lk_halted>>
    /\ UNCHANGED lkOthers

LK_local_irq_mask ==
    /\ ~lk_halted
    /\ DAIF' = [DAIF EXCEPT !.I = 1]
    /\ lk_last' = [op |-> "local_irq_mask", res |-> "ran", val |-> 0]
    /\ UNCHANGED <<kernel_state, lk_data, lk_halted>>
    /\ UNCHANGED lkOthers

LK_transition_to_single_core_main ==
    /\ ~lk_halted
    /\ is_init(kernel_state)
    /\ kernel_state' = "SingleCoreMain"
    /\ lk_last' = [op |-> "transition_to_single_core_main", res |-> "ran", val |-> 0]
    /\ UNCHANGED <<DAIF, lk_data, lk_halted>>
    /\ UNCHANGED lkOthers

(***************************************************************************)
(* C10 as stated: write runs its closure only in the pre-init state with   *)
(* interrupts unmasked; past pre-init, or with interrupts masked, it halts *)
(* the kernel without running the closure or changing the data.            *)
(***************************************************************************)
C10_WriteRunsOnlyUnmasked ==
    [][lk_last'.op = "write" =>
           /\ lk_last'.res = "ran" => (kernel_state = "Init" /\ DAIF.I = 0)
           /\ (kernel_state # "Init" \/ DAIF.I = 1) =>
                  (lk_halted' /\ lk_last'.res = "panic" /\ lk_data' = lk_data)]_vars

(***************************************************************************)
(* C10 as the code has it: write runs its closure only in the pre-init     *)
(* state with interrupts masked; past pre-init, or with interrupts         *)
(* unmasked, it halts the kernel without running the closure or changing   *)
(* the data.                                                               *)
(***************************************************************************)
C10_WriteRunsOnlyMasked ==
    [][lk_last'.op = "write" =>
           /\ lk_last'.res = "ran" => (kernel_state = "Init" /\ DAIF.I = 1)
           /\ (kernel_state # "Init" \/ DAIF.I = 0) =>
                  (lk_halted' /\ lk_last'.res = "panic" /\ lk_data' = lk_data)]_vars

(* A write has run its closure, in pre-init with interrupts masked.        *)
C10_Witness ==
    /\ lk_last.op = "write"
    /\ lk_last.res = "ran"
    /\ lk_data = lk_last.val
    /\ lk_data # 0
    /\ kernel_state = "Init"
    /\ DAIF.I = 1


(***************************************************************************)
(* IRQSafeNullLock.  lock hands its closure to exec_with_irq_masked, which *)
(* saves DAIF and masks IRQs (local_irq_mask_and_save), runs the closure   *)
(* and writes the saved DAIF back (local_irq_restore).  il_stack holds one *)
(* frame per lock call that has not returned, innermost first: the DAIF    *)
(* value saved, the DAIF value the call was entered with, and whether its  *)
(* closure has run.  A closure increments the data; it may take another    *)
(* lock.                                                                   *)
(***************************************************************************)
MaxLockDepth == 2
IrqDataModulus == 8

local_irq_unmask(daif) == [daif EXCEPT !.I = 0]

local_irq_mask(daif) == [daif EXCEPT !.I = 1]

local_irq_mask_and_save_after_mask(daif) ==
    [saved |-> local_irq_mask(daif), daif |-> local_irq_mask(daif)]

local_irq_mask_and_save(daif) == [saved |-> daif, daif |-> local_irq_mask(daif)]

local_irq_restore_unmasked(saved) == [saved EXCEPT !.I = 0]

(* DAIF.set(saved): the value DAIF holds afterwards.                       *)
local_irq_restore(saved) == saved

ILInit ==
    /\ il_stack = <<>>
    /\ il_data = 0
    /\ il_last = [op |-> "none", entry |-> [D |-> 1, A |-> 1, I |-> 1, F |-> 1]]

IL_lock ==
    /\ Len(il_stack) < MaxLockDepth
    /\ il_stack # <<>> => ~Head(il_stack).ran
    /\ LET r == local_irq_mask_and_save(DAIF)
       IN  /\ DAIF' = r.daif
           /\ il_stack' = <<[saved |-> r.saved, entry |-> DAIF, ran |-> FALSE]>> \o il_stack
    /\ il_last' = [op |-> "lock", entry |-> DAIF]
    /\ UNCHANGED il_data
    /\ UNCHANGED ilOthers

IL_closure ==
    /\ il_stack # <<>>
    /\ ~Head(il_stack).ran
    /\ il_data' = (il_data + 1) % IrqDataModulus
    /\ il_stack' = <<[Head(il_stack) EXCEPT !.ran = TRUE]>> \o Tail(il_stack)
    /\ il_last' = [op |-> "closure", entry |-> Head(il_stack).entry]
    /\ UNCHANGED DAIF
    /\ UNCHANGED ilOthers

IL_unlock ==
    /\ il_stack # <<>>
    /\ Head(il_stack).ran
    /\ DAIF' = local_irq_restore(Head(il_stack).saved)
    /\ il_stack' = Tail(il_stack)
    /\ il_last' = [op |-> "unlock", entry |-> Head(il_stack).entry]
    /\ UNCHANGED il_data
    /\ UNCHANGED ilOthers

(* The code outside any lock unmasks and masks IRQs.                       *)
IL_local_irq_unmask ==
    /\ il_stack = <<>>
    /\ DAIF' = local_irq_unmask(DAIF)
    /\ il_last' = [op |-> "local_irq_unmask", entry |-> DAIF]
    /\ UNCHANGED <<il_stack, il_data>>
    /\ UNCHANGED ilOthers

IL_local_irq_mask ==
    /\ il_stack = <<>>
    /\ DAIF' = local_irq_mask(DAIF)
    /\ il_last' = [op |-> "local_irq_mask", entry |-> DAIF]
    /\ UNCHANGED <<il_stack, il_data>>
    /\ UNCHANGED ilOthers

(***************************************************************************)
(* C11: IRQs are masked on the executing core for as long as a closure     *)
(* passed to lock runs, and when lock returns DAIF equals the value it had *)
(* immediately before the call, whether IRQs were masked or unmasked then. *)
(***************************************************************************)
C11_MaskedThenRestored ==
    /\ [](il_stack # <<>> => DAIF.I = 1)
    /\ [][(il_last'.op = "unlock" /\ Len(il_stack') < Len(il_stack)) =>
              DAIF' = Head(il_stack).entry]_vars

(* A lock entered with IRQs unmasked has run its closure and returned with *)
(* IRQs unmasked again.                                                    *)
C11_Witness ==
    /\ il_last.op = "unlock"
    /\ il_last.entry.I = 0
    /\ il_stack = <<>>
    /\ il_data # 0
    /\ DAIF.I = 0

(***************************************************************************)
(* C35: with IRQSafeNullLocks nested, IRQs stay masked from the entry of   *)
(* the outermost lock to its exit; leaving an inner lock leaves IRQs       *)
(* masked, and leaving the outermost lock writes back the DAIF value held  *)
(* before the outermost entry.                                             *)
(***************************************************************************)
C35_NestedLocksKeepMask ==
    /\ [](il_stack # <<>> => (DAIF.I = 1 /\ \A i \in 2 .. Len(il_stack) : il_stack[i - 1].saved.I = 1))
    /\ [][(il_last'.op = "unlock" /\ Len(il_stack) = 2) => DAIF'.I = 1]_vars
    /\ [][(il_last'.op = "unlock" /\ Len(il_stack) = 1) =>
              DAIF' = il_stack[Len(il_stack)].entry]_vars

(* Inside an outer lock that was entered with IRQs unmasked, an inner lock *)
(* has run its closure and returned; IRQs are still masked.                *)
C35_Witness ==
    /\ Len(il_stack) = 1
    /\ il_last.op = "unlock"
    /\ Head(il_stack).entry.I = 0
    /\ ~Head(il_stack).ran
    /\ il_data # 0
    /\ DAIF.I = 1


(***************************************************************************)
(* The kernel's mapping interface: kernel_map_at, kernel_map_mmio and the  *)
(* statics they work on.  KERNEL_TRANSLATION_TABLES and                    *)
(* KERNEL_MAPPING_RECORDS are InitStateLocks, KERNEL_MMIO_VA_ALLOCATOR is  *)
(* an IRQSafeNullLock.  A kernel value k is the record of the three: the   *)
(* table (lvl3, initialized), the mapping record (inner) and the           *)
(* allocator's pool.  A result "panic" is the kernel's halt.               *)
(***************************************************************************)
MmioRemapStartPage == 1
MmioRemapPages == 3

align_down(ptr, alignment) == ptr - (ptr % alignment)

align_up(ptr, alignment) == align_down(ptr + alignment - 1, alignment)

offset_into_page(addr) == addr % KernelGranule_SIZE

(* MMIODescriptor::new(start_addr, size)                                   *)
MMIODescriptor_new(start_addr, sz) ==
    [start_addr |-> start_addr, end_addr_exclusive |-> start_addr + sz]

(* From<MMIODescriptor> for MemoryRegion<Physical>                         *)
MemoryRegion_from(desc) ==
    MemoryRegion(align_down(desc.start_addr, KernelGranule_SIZE),
                 align_up(desc.end_addr_exclusive, KernelGranule_SIZE))

(* The MMIO remap pages the linker script reserves.                        *)
virt_mmio_remap_region ==
    LET start_page_addr == MmioRemapStartPage * KernelGranule_SIZE
    IN  MemoryRegion(start_page_addr, checked_offset(start_page_addr, as_isize(MmioRemapPages)))

(* end_exclusive.checked_offset(-1), None where unwrap() panics.           *)
end_inclusive_page_addr(r) == checked_offset(r.end_exclusive, -1)

(* Range<PageAddress>::contains                                            *)
range_contains(r, a) == r.start <= a /\ a < r.end_exclusive

(* MemoryRegion::overlaps: "true", "false", or "panic" from the unwrap in  *)
(* end_inclusive_page_addr, which || evaluates only if the start is not    *)
(* contained.                                                              *)
overlaps(self, other_region) ==
    IF range_contains(self, other_region.start) THEN "true"
    ELSE LET e == end_inclusive_page_addr(other_region)
         IN  IF e = None THEN "panic"
             ELSE IF range_contains(self, e) THEN "true" ELSE "false"

(* The two asserts at the head of InitStateLock::write.                    *)
InitStateLock_write_asserts_any_state(s, daif) == local_irq_enabled(daif)

InitStateLock_write_asserts(s, daif) == is_init(s) /\ local_irq_enabled(daif)

(* IRQSafeNullLock::lock around a closure that leaves DAIF alone: the DAIF *)
(* value after the call.                                                   *)
IRQSafeNullLock_lock_daif(daif) == local_irq_restore(local_irq_mask_and_save(daif).saved)

PageAllocator_alloc(cur, num_requested_pages) ==
    LET taken(r) == [res |-> r.res, allocation |-> r.allocation,
                     pool |-> [is_some |-> TRUE, region |-> r.pool]]
    IN  IF ~cur.is_some
        THEN [res |-> "Allocator not initialized", allocation |-> MemoryRegion(0, 0),
              pool |-> cur]
        ELSE taken(take_first_n_pages(cur.region, num_requested_pages))

kernel_add_mapping_record(k, s, daif, name, virt_region, phys_region, attr) ==
    IF ~InitStateLock_write_asserts(s, daif) THEN [res |-> "panic", inner |-> k.inner]
    ELSE MappingRecords_add(k.inner, name, virt_region, phys_region, attr)

(* A failed add is only a warning; a failed map_at keeps what it wrote.    *)
kernel_map_at_unchecked(k, s, daif, name, virt_region, phys_region, attr) ==
    IF ~InitStateLock_write_asserts(s, daif) \/ ~k.initialized
    THEN [res |-> "panic", warn |-> "none", k |-> k]
    ELSE LET recorded(k1, a) ==
                 IF a.res = "panic" THEN [res |-> "panic", warn |-> "none", k |-> k1]
                 ELSE [res |-> OkRes,
                       warn |-> IF a.res = OkRes THEN "none" ELSE a.res,
                       k |-> [k1 EXCEPT !.inner = a.inner]]
             mapped(m, k1) ==
                 IF m.res # OkRes THEN [res |-> m.res, warn |-> "none", k |-> k1]
                 ELSE recorded(k1, kernel_add_mapping_record(k1, s, daif, name, virt_region,
                                                             phys_region, attr))
             written(m) == mapped(m, [k EXCEPT !.lvl3 = m.lvl3])
         IN  written(map_at(k.lvl3, virt_region, phys_region, attr))

kernel_map_at(k, s, daif, name, virt_region, phys_region, attr) ==
    LET checked(o) ==
            IF o = "panic" THEN [res |-> "panic", warn |-> "none", k |-> k]
            ELSE IF o = "true"
            THEN [res |-> "Attempt to manually map into MMIO region", warn |-> "none", k |-> k]
            ELSE kernel_map_at_unchecked(k, s, daif, name, virt_region, phys_region, attr)
    IN  checked(overlaps(virt_mmio_remap_region, virt_region))


(* kernel_try_add_device_record_mmio_user: res is "Some", "None" or the    *)
(* panic of the write asserts; warn is what it logs.                       *)
kernel_try_add_device_record_mmio_user(k, s, daif, new_user, mmio_descriptor) ==
    LET added(t, u) ==
            [res |-> "Some", addr |-> k.inner[t.found].virt_start_addr,
             warn |-> IF u.res = OkRes THEN "none" ELSE u.res, inner |-> t.inner]
        looked_up(t) ==
            IF t.found = 0
            THEN [res |-> "None", addr |-> 0, warn |-> "none", inner |-> k.inner]
            ELSE added(t, add_user(k.inner[t.found], new_user))
    IN  IF ~InitStateLock_write_asserts(s, daif)
        THEN [res |-> "panic", addr |-> 0, warn |-> "none", inner |-> k.inner]
        ELSE looked_up(try_add_device_record_mmio_user(k.inner, new_user,
                                                       MemoryRegion_from(mmio_descriptor)))

(* The attributes kernel_map_mmio maps with (execute_never: true).         *)
MmioAttributeFields ==
    [mem_attributes |-> "Device", acc_perms |-> "ReadWrite", executable |-> FALSE]

kernel_map_mmio(k, s, daif, name, mmio_descriptor) ==
    LET offset_into_start_page == offset_into_page(mmio_descriptor.start_addr)
        mapped(al, m) ==
            IF m.res # OkRes
            THEN [res |-> m.res, addr |-> 0, warn |-> "none", k |-> m.k]
            ELSE [res |-> OkRes,
                  addr |-> al.allocation.start + offset_into_start_page,
                  warn |-> m.warn, k |-> m.k]
        allocated(phys_region, al, k1) ==
            IF al.res # OkRes
            THEN [res |-> al.res, addr |-> 0, warn |-> "none", k |-> k1]
            ELSE mapped(al, kernel_map_at_unchecked(k1, s, daif, name, al.allocation,
                                                    phys_region, MmioAttributeFields))
        with_pool(phys_region, al) == allocated(phys_region, al, [k EXCEPT !.pool = al.pool])
        looked_up(phys_region, t) ==
            IF t.res = "panic" THEN [res |-> "panic", addr |-> 0, warn |-> "none", k |-> k]
            ELSE IF t.res = "Some"
            THEN [res |-> OkRes, addr |-> t.addr + offset_into_start_page, warn |-> t.warn,
                  k |-> [k EXCEPT !.inner = t.inner]]
            ELSE IF num_pages(phys_region) = 0
            THEN [res |-> "Requested 0 pages", addr |-> 0, warn |-> "none", k |-> k]
            ELSE with_pool(phys_region, PageAllocator_alloc(k.pool, num_pages(phys_region)))
    IN  looked_up(MemoryRegion_from(mmio_descriptor),
                  kernel_try_add_device_record_mmio_user(k, s, daif, name, mmio_descriptor))

(***************************************************************************)
(* State of the kernel's mapping interface: its last call, whether the     *)
(* kernel has halted, and the page-rounded physical regions of the        *)
(* kernel_map_mmio calls that returned Ok.                                 *)
(***************************************************************************)
KernelValue == [lvl3 |-> lvl3, initialized |-> initialized, inner |-> mr_inner, pool |-> pa_pool]

KNoCall == [op |-> "none", res |-> "none", warn |-> "none", addr |-> 0, name |-> "none",
            virt |-> MemoryRegion(0, 0), desc |-> MMIODescriptor_new(0, 0)]

KInit ==
    /\ k_last = KNoCall
    /\ k_halted = FALSE
    /\ k_mmio_ok = {}

(* The regions kernel_map_at is called with, identity mapped as the kernel *)
(* binary is: one page below the remap region, one page above it, one that *)
(* strictly contains it, one that ends in it and one that starts in it.    *)
KernelMapRegions ==
    { PageRegion(0, 1),
      PageRegion(MmioRemapStartPage + MmioRemapPages, 1),
      PageRegion(0, MmioRemapStartPage + MmioRemapPages + 1),
      PageRegion(0, MmioRemapStartPage + 1),
      PageRegion(MmioRemapStartPage + MmioRemapPages - 1, 2) }

kernel_virt_to_phys_region(virt_region) ==
    MemoryRegion(virt_region.start, virt_region.end_exclusive)

KernelAttributeFields ==
    [mem_attributes |-> "CacheableDRAM", acc_perms |-> "ReadWrite", executable |-> FALSE]

(* The MMIO windows the drivers ask for: two devices inside one physical   *)
(* page, and a window that starts in that page and ends in the next.       *)
DevicePhysPage == PhysPages - 2

MmioRequests ==
    { [name |-> "uart", desc |-> MMIODescriptor_new(DevicePhysPage * KernelGranule_SIZE + 1, 2)],
      [name |-> "gpio", desc |-> MMIODescriptor_new(DevicePhysPage * KernelGranule_SIZE, 3)],
      [name |-> "gic",  desc |-> MMIODescriptor_new(DevicePhysPage * KernelGranule_SIZE + 2,
                                                    KernelGranule_SIZE)] }


(* kernel_map_binary's first step: KERNEL_TRANSLATION_TABLES.write runs    *)
(* tables.init().                                                          *)
K_init_tables ==
    /\ ~k_halted
    /\ IF ~InitStateLock_write_asserts(kernel_state, DAIF)
       THEN /\ k_halted' = TRUE
            /\ k_last' = [KNoCall EXCEPT !.op = "init_tables", !.res = "panic"]
            /\ UNCHANGED <<lvl2, initialized>>
       ELSE /\ lvl2' = IF initialized THEN lvl2
                       ELSE [i \in TableIdx |->
                                TableDescriptor_from_phys_addr(lvl3_phys_start_addr(i))]
            /\ initialized' = TRUE
            /\ k_last' = [KNoCall EXCEPT !.op = "init_tables", !.res = OkRes]
            /\ UNCHANGED k_halted
    /\ UNCHANGED <<lvl3, pa_pool, mr_inner, kernel_state, DAIF, k_mmio_ok>>
    /\ UNCHANGED kOthers

(* kernel_init_mmio_va_allocator                                           *)
K_init_mmio_va_allocator ==
    /\ ~k_halted
    /\ pa_pool' = PageAllocator_init(pa_pool, virt_mmio_remap_region)
    /\ DAIF' = IRQSafeNullLock_lock_daif(DAIF)
    /\ k_last' = [KNoCall EXCEPT !.op = "init_mmio_va_allocator", !.res = OkRes,
                                 !.warn = IF pa_pool.is_some THEN "Already initialized"
                                          ELSE "none"]
    /\ UNCHANGED <<lvl3, lvl2, initialized, mr_inner, kernel_state, k_halted, k_mmio_ok>>
    /\ UNCHANGED kOthers

kernel_map_at_call(regions) ==
    /\ ~k_halted
    /\ \E virt_region \in regions :
          LET returned(r) ==
                  /\ lvl3' = r.k.lvl3
                  /\ mr_inner' = r.k.inner
                  /\ k_halted' = (r.res = "panic")
                  /\ k_last' = IF r.res = "panic"
                               THEN [KNoCall EXCEPT !.op = "kernel_map_at", !.res = "panic"]
                               ELSE [KNoCall EXCEPT !.op = "kernel_map_at", !.res = r.res,
                                                    !.warn = r.warn, !.name = "kernel",
                                                    !.virt = virt_region]
          IN  returned(kernel_map_at(KernelValue, kernel_state, DAIF, "kernel", virt_region,
                                     kernel_virt_to_phys_region(virt_region),
                                     KernelAttributeFields))
    /\ UNCHANGED <<lvl2, initialized, pa_pool, kernel_state, DAIF, k_mmio_ok>>
    /\ UNCHANGED kOthers

K_kernel_map_at == kernel_map_at_call(KernelMapRegions)

kernel_map_mmio_call(requests) ==
    /\ ~k_halted
    /\ \E q \in requests :
          LET returned(r) ==
                  /\ lvl3' = r.k.lvl3
                  /\ mr_inner' = r.k.inner
                  /\ pa_pool' = r.k.pool
                  /\ DAIF' = IF r.k.pool # pa_pool THEN IRQSafeNullLock_lock_daif(DAIF)
                             ELSE DAIF
                  /\ k_halted' = (r.res = "panic")
                  /\ k_mmio_ok' = IF r.res = OkRes
                                  THEN k_mmio_ok \cup {MemoryRegion_from(q.desc)}
                                  ELSE k_mmio_ok
                  /\ k_last' = IF r.res = "panic"
                               THEN [KNoCall EXCEPT !.op = "kernel_map_mmio", !.res = "panic",
                                                    !.name = q.name, !.desc = q.desc]
                               ELSE [KNoCall EXCEPT !.op = "kernel_map_mmio", !.res = r.res,
                                                    !.warn = r.warn, !.addr = r.addr,
                                                    !.name = q.name, !.desc = q.desc]
          IN  returned(kernel_map_mmio(KernelValue, kernel_state, DAIF, q.name, q.desc))
    /\ UNCHANGED <<lvl2, initialized, kernel_state>>
    /\ UNCHANGED kOthers

K_kernel_map_mmio == kernel_map_mmio_call(MmioRequests)

(* kernel_init's last two steps: IRQs are unmasked, then the state manager *)
(* leaves the init state.                                                  *)
K_local_irq_unmask ==
    /\ ~k_halted
    /\ DAIF.I = 1
    /\ DAIF' = local_irq_unmask(DAIF)
    /\ k_last' = [KNoCall EXCEPT !.op = "local_irq_unmask", !.res = OkRes]
    /\ UNCHANGED <<lvl3, lvl2, initialized, pa_pool, mr_inner, kernel_state, k_halted, k_mmio_ok>>
    /\ UNCHANGED kOthers

K_transition_to_single_core_main ==
    /\ ~k_halted
    /\ DAIF.I = 0
    /\ is_init(kernel_state)
    /\ kernel_state' = "SingleCoreMain"
    /\ k_last' = [KNoCall EXCEPT !.op = "transition_to_single_core_main", !.res = OkRes]
    /\ UNCHANGED <<lvl3, lvl2, initialized, pa_pool, mr_inner, DAIF, k_halted, k_mmio_ok>>
    /\ UNCHANGED kOthers


(***************************************************************************)
(* C13 as stated: every kernel_map_mmio call mutates the translation table *)
(* and the mapping record under the interrupt-safe lock.  That lock masks  *)
(* IRQs itself and restores the mask, so on an initialized table, whatever *)
(* the mask and the lifecycle state on entry, the call does not halt and   *)
(* returns with DAIF as it was.                                            *)
(***************************************************************************)
C13_MutationsUnderIrqSafeLock ==
    [][(k_last'.op = "kernel_map_mmio" /\ initialized) =>
           (~k_halted' /\ DAIF' = DAIF)]_vars

(***************************************************************************)
(* C13 as the code has it: the table and the record are mutated under the  *)
(* phase-gated lock.  A kernel_map_mmio call changes them only in the      *)
(* pre-init state with IRQs already masked, and leaves DAIF as it was; a   *)
(* call past pre-init or with IRQs unmasked halts the kernel without       *)
(* changing the table, the record or the pool.                             *)
(***************************************************************************)
C13_MutationsUnderPhaseGatedLock ==
    [][k_last'.op = "kernel_map_mmio" =>
           /\ (lvl3' # lvl3 \/ mr_inner' # mr_inner) => (kernel_state = "Init" /\ DAIF.I = 1)
           /\ DAIF' = DAIF
           /\ (kernel_state # "Init" \/ DAIF.I = 0) =>
                  (k_halted' /\ lvl3' = lvl3 /\ mr_inner' = mr_inner /\ pa_pool' = pa_pool)]_vars

DescriptorAt(tbl, a) == get_descriptor(tbl, a).desc

(* A kernel_map_mmio call has mapped a device window and recorded it, in   *)
(* pre-init with IRQs masked.                                              *)
C13_Witness ==
    /\ k_last.op = "kernel_map_mmio"
    /\ k_last.res = OkRes
    /\ kernel_state = "Init"
    /\ DAIF.I = 1
    /\ is_valid(DescriptorAt(lvl3, align_down(k_last.addr, KernelGranule_SIZE)))
    /\ find_device_record(mr_inner, MemoryRegion_from(k_last.desc)) # 0

(***************************************************************************)
(* C15: a kernel_map_at call for a virtual region that shares at least one *)
(* page with the MMIO remap region (a region that strictly contains the    *)
(* remap region included) fails, and the descriptors of the pages of the   *)
(* remap region stay as they were.                                         *)
(***************************************************************************)
SharesPage(r1, r2) == as_range(r1) \cap as_range(r2) # {}

C15_NoManualMapIntoMmio ==
    [][(k_last'.op = "kernel_map_at" /\ ~k_halted'
            /\ SharesPage(k_last'.virt, virt_mmio_remap_region)) =>
           /\ k_last'.res # OkRes
           /\ \A a \in as_range(virt_mmio_remap_region) :
                  DescriptorAt(lvl3', a) = DescriptorAt(lvl3, a)]_vars

(***************************************************************************)
(* C17: after any sequence of kernel_map_mmio calls no physical page is    *)
(* mapped as device memory at two different virtual pages.                 *)
(***************************************************************************)
TablePages == { p * KernelGranule_SIZE : p \in 0 .. (NUM_TABLES * EntriesPerTable - 1) }

DevicePages(tbl) ==
    { a \in TablePages :
        is_valid(DescriptorAt(tbl, a)) /\ DescriptorAt(tbl, a).AttrIndx = mair_DEVICE }

C17_NoAliasing ==
    \A v1, v2 \in DevicePages(lvl3) :
        v1 # v2 =>
            DescriptorAt(lvl3, v1).OUTPUT_ADDR_64KiB # DescriptorAt(lvl3, v2).OUTPUT_ADDR_64KiB

(***************************************************************************)
(* C19: when the device record of a physical window already has MAX_USERS  *)
(* users, a further kernel_map_mmio for that window (made where the        *)
(* phase-gated lock admits it) does not halt and does not fail: it returns *)
(* the entry's virtual start address plus the descriptor's offset into its *)
(* page, logs the exhausted user storage as a warning, and leaves the      *)
(* record, the table and the pool unchanged.                               *)
(***************************************************************************)
C19_SixthUserOnlyWarned ==
    [][LET i == find_device_record(mr_inner, MemoryRegion_from(k_last'.desc))
       IN  (/\ k_last'.op = "kernel_map_mmio"
            /\ kernel_state = "Init" /\ DAIF.I = 1
            /\ i # 0
            /\ \A u \in 1 .. MAX_USERS : mr_inner[i].users[u] # NoUser) =>
               /\ ~k_halted'
               /\ k_last'.res = OkRes
               /\ k_last'.addr =
                      mr_inner[i].virt_start_addr + offset_into_page(k_last'.desc.start_addr)
               /\ k_last'.warn = "Storage for user info exhausted"
               /\ mr_inner' = mr_inner
               /\ lvl3' = lvl3
               /\ pa_pool' = pa_pool]_vars

(* A sixth request for a window has returned Ok with the warning.          *)
C19_Witness ==
    /\ k_last.op = "kernel_map_mmio"
    /\ k_last.res = OkRes
    /\ k_last.warn = "Storage for user info exhausted"
    /\ LET i == find_device_record(mr_inner, MemoryRegion_from(k_last.desc))
       IN  /\ i # 0
           /\ \A u \in 1 .. MAX_USERS : mr_inner[i].users[u] # NoUser
           /\ k_last.addr = mr_inner[i].virt_start_addr
                              + offset_into_page(k_last.desc.start_addr)


(***************************************************************************)
(* The mapping interface on a record that fills up.  kernel_map_at is      *)
(* called with an empty region above the remap region (map_at has no page  *)
(* to write and the call is recorded) and with one page; kernel_map_mmio   *)
(* with the two devices that share a physical page.                        *)
(***************************************************************************)
FillRegions ==
    { PageRegion(MmioRemapStartPage + MmioRemapPages + 1, 0),
      PageRegion(0, 1) }

FillRequests == { q \in MmioRequests : q.name \in {"uart", "gpio"} }

KF_kernel_map_at == kernel_map_at_call(FillRegions)

KF_kernel_map_mmio == kernel_map_mmio_call(FillRequests)

(***************************************************************************)
(* C14: resource exhaustion is returned to the caller as an error.  With   *)
(* the record full (MAX_MAPPINGS entries), a kernel_map_at outside the     *)
(* remap region, and a kernel_map_mmio for a window that has no record,    *)
(* return an error; a kernel_map_mmio that asks for more pages than the    *)
(* pool has left returns an error.                                         *)
(***************************************************************************)
LockAdmits == kernel_state = "Init" /\ DAIF.I = 1

IsError(res) == res \notin {OkRes, "panic"}

C14_ExhaustionReturned ==
    [][/\ (/\ k_last'.op = "kernel_map_at" /\ ~k_halted'
           /\ MappingRecords_size(mr_inner) = MAX_MAPPINGS) => IsError(k_last'.res)
       /\ (/\ k_last'.op = "kernel_map_mmio" /\ LockAdmits /\ initialized
           /\ find_device_record(mr_inner, MemoryRegion_from(k_last'.desc)) = 0
           /\ \/ MappingRecords_size(mr_inner) = MAX_MAPPINGS
              \/ /\ pa_pool.is_some
                 /\ num_pages(MemoryRegion_from(k_last'.desc)) > num_pages(pa_pool.region))
              => IsError(k_last'.res)]_vars

(***************************************************************************)
(* C16: a kernel_map_mmio call for a descriptor whose page-rounded         *)
(* physical region equals that of an earlier kernel_map_mmio call that     *)
(* returned Ok allocates no virtual pages, writes no descriptor and adds   *)
(* no record entry; it appends the caller's name to the existing entry's   *)
(* users (while a slot is free) and returns the entry's virtual start      *)
(* address plus the descriptor's offset into its first page.               *)
(***************************************************************************)
C16_DeviceRegionReused ==
    [][(/\ k_last'.op = "kernel_map_mmio" /\ LockAdmits
        /\ MemoryRegion_from(k_last'.desc) \in k_mmio_ok) =>
           LET i == find_device_record(mr_inner, MemoryRegion_from(k_last'.desc))
           IN  /\ pa_pool' = pa_pool
               /\ lvl3' = lvl3
               /\ i # 0
               /\ mr_inner' = [mr_inner EXCEPT ![i] = add_user(mr_inner[i], k_last'.name).entry]
               /\ k_last'.res = OkRes
               /\ k_last'.addr =
                      mr_inner[i].virt_start_addr + offset_into_page(k_last'.desc.start_addr)]_vars


(***************************************************************************)
(* The data behind the InitStateLocks, before and after kernel_init ends:  *)
(* the translation table, the mapping record, DriverManager::inner and     *)
(* console::CUR_CONSOLE, with the calls that write and read them.          *)
(***************************************************************************)
NUM_DRIVERS == 5

NoDriver == "None"

(* DriverManagerInner::new                                                 *)
DriverManagerInner_new ==
    [next_index |-> 0, descriptors |-> [i \in 0 .. (NUM_DRIVERS - 1) |-> NoDriver]]

(* Nothing registered: CUR_CONSOLE is the null console.                    *)
PHInit ==
    /\ dm_inner = DriverManagerInner_new
    /\ cur_console = "NULL_CONSOLE"

(* DriverManager::register_driver: inner.write(..); indexing descriptors   *)
(* past its end panics.                                                    *)
register_driver(inner, s, daif, descriptor) ==
    IF ~InitStateLock_write_asserts(s, daif) THEN [res |-> "panic", inner |-> inner]
    ELSE IF inner.next_index >= NUM_DRIVERS THEN [res |-> "panic", inner |-> inner]
    ELSE [res |-> OkRes,
          inner |-> [next_index |-> inner.next_index + 1,
                     descriptors |-> [inner.descriptors EXCEPT ![inner.next_index] = descriptor]]]

(* console::register_console: CUR_CONSOLE.write(|con| *con = new_console)  *)
register_console(con, s, daif, new_console) ==
    IF ~InitStateLock_write_asserts(s, daif) THEN [res |-> "panic", con |-> con]
    ELSE [res |-> OkRes, con |-> new_console]

(* InitStateLock::read asserts nothing and runs the closure.               *)
kernel_page_attributes(k, virt_page_addr) == try_page_attributes(k.lvl3, virt_page_addr)

(* Inputs: a page below the remap region and the remap region's first      *)
(* page; one device window; one driver and one console.                    *)
PhaseRegions == { PageRegion(0, 1), PageRegion(MmioRemapStartPage, 1) }
PhaseRequests == { q \in MmioRequests : q.name = "uart" }
PhaseDrivers == { "uart" }
PhaseConsoles == { "PL011_UART" }
PhasePages == { 0, MmioRemapStartPage * KernelGranule_SIZE }

PH_kernel_map_at == kernel_map_at_call(PhaseRegions)

PH_kernel_map_mmio == kernel_map_mmio_call(PhaseRequests)

PH_register_driver ==
    /\ ~k_halted
    /\ \E descriptor \in PhaseDrivers :
          LET returned(r) ==
                  /\ dm_inner' = r.inner
                  /\ k_halted' = (r.res = "panic")
                  /\ k_last' = [KNoCall EXCEPT !.op = "register_driver", !.res = r.res,
                                               !.name = descriptor]
          IN  returned(register_driver(dm_inner, kernel_state, DAIF, descriptor))
    /\ UNCHANGED <<lvl3, lvl2, initialized, pa_pool, mr_inner, kernel_state, DAIF, k_mmio_ok,
                   cur_console>>
    /\ UNCHANGED phOthers

PH_register_console ==
    /\ ~k_halted
    /\ \E new_console \in PhaseConsoles :
          LET returned(r) ==
                  /\ cur_console' = r.con
                  /\ k_halted' = (r.res = "panic")
                  /\ k_last' = [KNoCall EXCEPT !.op = "register_console", !.res = r.res,
                                               !.name = new_console]
          IN  returned(register_console(cur_console, kernel_state, DAIF, new_console))
    /\ UNCHANGED <<lvl3, lvl2, initialized, pa_pool, mr_inner, kernel_state, DAIF, k_mmio_ok,
                   dm_inner>>
    /\ UNCHANGED phOthers

(* bsp::memory::mmu::kernel_page_attributes                                *)
PH_kernel_page_attributes ==
    /\ ~k_halted
    /\ \E virt_page_addr \in PhasePages :
          k_last' = [KNoCall EXCEPT !.op = "kernel_page_attributes",
                                    !.res = kernel_page_attributes(KernelValue, virt_page_addr).res,
                                    !.addr = virt_page_addr]
    /\ UNCHANGED <<lvl3, lvl2, initialized, pa_pool, mr_inner, kernel_state, DAIF, k_halted,
                   k_mmio_ok, dm_inner, cur_console>>
    /\ UNCHANGED phOthers

(* mapping_record::print_kernel_mappings: KERNEL_MAPPING_RECORDS.read      *)
PH_print_kernel_mappings ==
    /\ ~k_halted
    /\ k_last' = [KNoCall EXCEPT !.op = "print_kernel_mappings", !.res = OkRes]
    /\ UNCHANGED <<lvl3, lvl2, initialized, pa_pool, mr_inner, kernel_state, DAIF, k_halted,
                   k_mmio_ok, dm_inner, cur_console>>
    /\ UNCHANGED phOthers

(* Code that runs with IRQs masked (an IRQ handler, a critical section).   *)
PH_local_irq_mask ==
    /\ ~k_halted
    /\ DAIF.I = 0
    /\ DAIF' = local_irq_mask(DAIF)
    /\ k_last' = [KNoCall EXCEPT !.op = "local_irq_mask", !.res = OkRes]
    /\ UNCHANGED <<lvl3, lvl2, initialized, pa_pool, mr_inner, kernel_state, k_halted,
                   k_mmio_ok, dm_inner, cur_console>>
    /\ UNCHANGED phOthers

WriteCalls == {"kernel_map_at", "kernel_map_mmio", "register_driver", "register_console"}

Drivers ==
    { [name |-> "uart",         init |-> OkRes, post_init_callback |-> OkRes,  irq |-> OkRes],
      [name |-> "gpio",         init |-> OkRes, post_init_callback |-> OkRes,  irq |-> "None"],
      [name |-> "plain",        init |-> OkRes, post_init_callback |-> "None", irq |-> "None"],
      [name |-> "bad init",     init |-> "Err", post_init_callback |-> OkRes,  irq |-> OkRes],
      [name |-> "bad callback", init |-> OkRes, post_init_callback |-> "Err",  irq |-> OkRes],
      [name |-> "bad irq",      init |-> OkRes, post_init_callback |-> "None", irq |-> "Err"] }

(* The descriptors bsp::driver::init registers; the drivers' own calls     *)
(* succeed.                                                                *)
BspDrivers ==
    { [name |-> "PL011_UART", init |-> OkRes, post_init_callback |-> OkRes, irq |-> OkRes],
      [name |-> "GPIO", init |-> OkRes, post_init_callback |-> OkRes, irq |-> "None"],
      [name |-> "INTERRUPT_CONTROLLER", init |-> OkRes, post_init_callback |-> OkRes,
       irq |-> "None"] }

DriverOf(descriptor) == CHOOSE d \in Drivers \cup BspDrivers : d.name = descriptor

DInit ==
    /\ dm_trace = <<>>
    /\ dm_res = "none"

DriverCall(call, i, res) == [call |-> call, index |-> i, res |-> res]

with_post_init_callback(d, i, trace) ==
    IF d.post_init_callback = "None" THEN [res |-> OkRes, trace |-> trace]
    ELSE [res |-> IF d.post_init_callback = OkRes THEN OkRes ELSE "panic",
          trace |-> Append(trace, DriverCall("post_init_callback", i, d.post_init_callback))]

register_irq_handler(d, i, trace) ==
    IF d.irq = "None" THEN [res |-> OkRes, trace |-> trace]
    ELSE [res |-> IF d.irq = OkRes THEN OkRes ELSE "panic",
          trace |-> Append(trace, DriverCall("register_and_enable_irq_handler", i, d.irq))]

init_and_post_init_with_irq(d, i, trace) ==
    LET called(c) == IF c.res = "panic" THEN c ELSE register_irq_handler(d, i, c.trace)
    IN  IF d.init # OkRes
        THEN [res |-> "panic", trace |-> Append(trace, DriverCall("init", i, d.init))]
        ELSE called(with_post_init_callback(d, i, Append(trace, DriverCall("init", i, d.init))))

(* The first closure: 1. init, 2. the post-init callback if there is one.  *)
init_and_post_init(d, i, trace) ==
    IF d.init # OkRes
    THEN [res |-> "panic", trace |-> Append(trace, DriverCall("init", i, d.init))]
    ELSE with_post_init_callback(d, i, Append(trace, DriverCall("init", i, d.init)))

(* for_each_descriptor over descriptors[i ..], skipping None, for each of  *)
(* the two closures.                                                       *)
RECURSIVE for_each_init(_, _, _)
for_each_init(inner, i, trace) ==
    LET done(r) == IF r.res = "panic" THEN r ELSE for_each_init(inner, i + 1, r.trace)
    IN  IF i >= NUM_DRIVERS THEN [res |-> OkRes, trace |-> trace]
        ELSE IF inner.descriptors[i] = NoDriver THEN for_each_init(inner, i + 1, trace)
        ELSE done(init_and_post_init(DriverOf(inner.descriptors[i]), i, trace))

RECURSIVE for_each_irq(_, _, _)
for_each_irq(inner, i, trace) ==
    LET done(r) == IF r.res = "panic" THEN r ELSE for_each_irq(inner, i + 1, r.trace)
    IN  IF i >= NUM_DRIVERS THEN [res |-> OkRes, trace |-> trace]
        ELSE IF inner.descriptors[i] = NoDriver THEN for_each_irq(inner, i + 1, trace)
        ELSE done(register_irq_handler(DriverOf(inner.descriptors[i]), i, trace))

init_drivers_and_irqs(inner) ==
    LET first(r) == IF r.res = "panic" THEN r ELSE for_each_irq(inner, 0, r.trace)
    IN  first(for_each_init(inner, 0, <<>>))

DM_register_driver ==
    /\ dm_res = "none"
    /\ \E d \in Drivers :
          LET returned(r) ==
                  /\ dm_inner' = r.inner
                  /\ dm_res' = IF r.res = "panic" THEN "panic" ELSE dm_res
          IN  returned(register_driver(dm_inner, kernel_state, DAIF, d.name))
    /\ UNCHANGED dm_trace
    /\ UNCHANGED dOthers

DM_init_drivers_and_irqs ==
    /\ dm_res = "none"
    /\ LET returned(r) ==
               /\ dm_trace' = r.trace
               /\ dm_res' = r.res
       IN  returned(init_drivers_and_irqs(dm_inner))
    /\ UNCHANGED dm_inner
    /\ UNCHANGED dOthers

Registered == { i \in 0 .. (NUM_DRIVERS - 1) : dm_inner.descriptors[i] # NoDriver }

TraceAt(call, i) ==
    { p \in DOMAIN dm_trace : dm_trace[p].call = call /\ dm_trace[p].index = i }

(***************************************************************************)
(* C31: in init_drivers_and_irqs the drivers are taken in registration     *)
(* order, each driver's init runs before its own post-init callback, no    *)
(* register_and_enable_irq_handler is called until the init and the        *)
(* post-init callback of every registered driver have completed, and a     *)
(* failing init or callback halts the kernel before any later driver is    *)
(* touched.                                                                *)
(***************************************************************************)
C31_InitBeforeIrqHandlers ==
    /\ \A p, q \in DOMAIN dm_trace :
          (p < q /\ dm_trace[p].call = dm_trace[q].call) =>
              dm_trace[p].index < dm_trace[q].index
    /\ \A p \in DOMAIN dm_trace :
          /\ dm_trace[p].index \in Registered
          /\ dm_trace[p].call = "post_init_callback" =>
                 \E q \in TraceAt("init", dm_trace[p].index) : q < p /\ dm_trace[q].res = OkRes
          /\ dm_trace[p].call = "register_and_enable_irq_handler" =>
                 \A i \in Registered :
                    /\ \E q \in TraceAt("init", i) : q < p /\ dm_trace[q].res = OkRes
                    /\ DriverOf(dm_inner.descriptors[i]).post_init_callback # "None" =>
                           \E q \in TraceAt("post_init_callback", i) :
                               q < p /\ dm_trace[q].res = OkRes
          /\ (dm_trace[p].res # OkRes) => (p = Len(dm_trace) /\ dm_res = "panic")
          /\ (dm_trace[p].res # OkRes /\ dm_trace[p].call # "register_and_enable_irq_handler") =>
                 \A q \in DOMAIN dm_trace : dm_trace[q].index <= dm_trace[p].index
    /\ (dm_res = OkRes) =>
           \A i \in Registered : TraceAt("init", i) # {}

(* Three drivers were brought up, two with a callback and one with an IRQ  *)
(* handler that was registered last.                                       *)
C31_Witness ==
    /\ dm_res = OkRes
    /\ dm_inner.next_index = 3
    /\ dm_inner.descriptors[0] = "gpio"
    /\ dm_inner.descriptors[1] = "uart"
    /\ dm_inner.descriptors[2] = "plain"
    /\ Len(dm_trace) = 6
    /\ dm_trace[6] = DriverCall("register_and_enable_irq_handler", 1, OkRes)


(***************************************************************************)
(* kernel_init, the boot core's early init: the calls it makes, in its     *)
(* order, each a step; boot_pc names the call it is about to make, or      *)
(* "kernel_main" once it is through, or "panic".  boot_layout is the       *)
(* layout the linker script gave the binary.                               *)
(***************************************************************************)
BootLayout(stack, heap, code, data) == [stack |-> stack, heap |-> heap, code |-> code, data |-> data]

(* Linked layouts: the stack below the MMIO remap pages and code, data and *)
(* heap above them; the same with two code pages; and one whose data pages *)
(* run into the MMIO remap pages.                                          *)
BootLayouts ==
    { BootLayout(PageRegion(0, 1),
                 PageRegion(MmioRemapStartPage + MmioRemapPages + 2, 1),
                 PageRegion(MmioRemapStartPage + MmioRemapPages, 1),
                 PageRegion(MmioRemapStartPage + MmioRemapPages + 1, 1)),
      BootLayout(PageRegion(0, 1),
                 PageRegion(MmioRemapStartPage + MmioRemapPages + 3, 1),
                 PageRegion(MmioRemapStartPage + MmioRemapPages, 2),
                 PageRegion(MmioRemapStartPage + MmioRemapPages + 2, 1)),
      BootLayout(PageRegion(0, 1),
                 PageRegion(MmioRemapStartPage + MmioRemapPages + 2, 1),
                 PageRegion(MmioRemapStartPage + MmioRemapPages, 1),
                 PageRegion(MmioRemapStartPage + MmioRemapPages - 1, 1)) }

BinaryRegions_data_executable(layout) ==
    << [name |-> "Kernel boot-core stack", virt |-> layout.stack,
        attr |-> [mem_attributes |-> "CacheableDRAM", acc_perms |-> "ReadWrite",
                  executable |-> FALSE]],
       [name |-> "Kernel heap", virt |-> layout.heap,
        attr |-> [mem_attributes |-> "CacheableDRAM", acc_perms |-> "ReadWrite",
                  executable |-> FALSE]],
       [name |-> "Kernel code and RO data", virt |-> layout.code,
        attr |-> [mem_attributes |-> "CacheableDRAM", acc_perms |-> "ReadOnly",
                  executable |-> TRUE]],
       [name |-> "Kernel data and bss", virt |-> layout.data,
        attr |-> [mem_attributes |-> "CacheableDRAM", acc_perms |-> "ReadWrite",
                  executable |-> TRUE]] >>

(* bsp::memory::mmu::kernel_map_binary's four kernel_map_at calls.         *)
BinaryRegions(layout) ==
    << [name |-> "Kernel boot-core stack", virt |-> layout.stack,
        attr |-> [mem_attributes |-> "CacheableDRAM", acc_perms |-> "ReadWrite",
                  executable |-> FALSE]],
       [name |-> "Kernel heap", virt |-> layout.heap,
        attr |-> [mem_attributes |-> "CacheableDRAM", acc_perms |-> "ReadWrite",
                  executable |-> FALSE]],
       [name |-> "Kernel code and RO data", virt |-> layout.code,
        attr |-> [mem_attributes |-> "CacheableDRAM", acc_perms |-> "ReadOnly",
                  executable |-> TRUE]],
       [name |-> "Kernel data and bss", virt |-> layout.data,
        attr |-> [mem_attributes |-> "CacheableDRAM", acc_perms |-> "ReadWrite",
                  executable |-> FALSE]] >>

(* The calls from the i-th on; `?` returns the first error.                *)
RECURSIVE bsp_kernel_map_binary(_, _, _, _, _)
bsp_kernel_map_binary(k, s, daif, regions, i) ==
    LET returned(r) ==
            IF r.res # OkRes THEN [res |-> r.res, k |-> r.k]
            ELSE bsp_kernel_map_binary(r.k, s, daif, regions, i + 1)
    IN  IF i > Len(regions) THEN [res |-> OkRes, k |-> k]
        ELSE returned(kernel_map_at(k, s, daif, regions[i].name, regions[i].virt,
                                    kernel_virt_to_phys_region(regions[i].virt),
                                    regions[i].attr))

(* Aarch64Mmu::enable_mmu_and_caching from entry to return.                *)
enable_mmu_and_caching(r, phys_tables_base_addr) ==
    LET entered(e) ==
            IF e # "proceed" THEN [res |-> e, regs |-> r]
            ELSE [res |-> OkRes,
                  regs |-> sctlr_enable(configure_translation_control(
                               set_baddr(set_up_mair(r), phys_tables_base_addr)))]
    IN  entered(enable_entry(r))

(* The MMIO windows of bsp::driver: UART and GPIO inside one physical      *)
(* page, the GIC distributor and CPU interface inside the next.            *)
GicPhysPage == DevicePhysPage + 1

UartRequests ==
    << [name |-> "uart", desc |-> MMIODescriptor_new(DevicePhysPage * KernelGranule_SIZE + 1, 2)] >>

GpioRequests ==
    << [name |-> "gpio", desc |-> MMIODescriptor_new(DevicePhysPage * KernelGranule_SIZE, 1)] >>

InterruptControllerRequests ==
    << [name |-> "GICv2 GICD", desc |-> MMIODescriptor_new(GicPhysPage * KernelGranule_SIZE + 1, 1)],
       [name |-> "GICV2 GICC", desc |-> MMIODescriptor_new(GicPhysPage * KernelGranule_SIZE + 2, 2)] >>

(* The kernel_map_mmio calls of one instantiate_* function from the i-th   *)
(* on; `?` returns the first error.                                        *)
RECURSIVE instantiate(_, _, _, _, _)
instantiate(k, s, daif, requests, i) ==
    LET returned(r) ==
            IF r.res # OkRes THEN [res |-> r.res, warn |-> r.warn, k |-> r.k]
            ELSE instantiate(r.k, s, daif, requests, i + 1)
    IN  IF i > Len(requests) THEN [res |-> OkRes, warn |-> "none", k |-> k]
        ELSE returned(kernel_map_mmio(k, s, daif, requests[i].name, requests[i].desc))

(* The order of kernel_init's calls, bsp::driver::init's included.         *)
kernel_init_next_drivers_first(pc) ==
    CASE pc = "kernel_map_binary" -> "post_enable_init"
      [] pc = "post_enable_init" -> "instantiate_uart"
      [] pc = "instantiate_uart" -> "instantiate_gpio"
      [] pc = "instantiate_gpio" -> "instantiate_interrupt_controller"
      [] pc = "instantiate_interrupt_controller" -> "enable_mmu_and_caching"
      [] pc = "enable_mmu_and_caching" -> "init_drivers_and_irqs"
      [] pc = "init_drivers_and_irqs" -> "local_irq_unmask"
      [] pc = "local_irq_unmask" -> "transition_to_single_core_main"
      [] OTHER -> "kernel_main"

kernel_init_next_unmask_first(pc) ==
    CASE pc = "kernel_map_binary" -> "enable_mmu_and_caching"
      [] pc = "enable_mmu_and_caching" -> "post_enable_init"
      [] pc = "post_enable_init" -> "instantiate_uart"
      [] pc = "instantiate_uart" -> "instantiate_gpio"
      [] pc = "instantiate_gpio" -> "instantiate_interrupt_controller"
      [] pc = "instantiate_interrupt_controller" -> "local_irq_unmask"
      [] pc = "local_irq_unmask" -> "init_drivers_and_irqs"
      [] pc = "init_drivers_and_irqs" -> "transition_to_single_core_main"
      [] OTHER -> "kernel_main"

kernel_init_next(pc) ==
    CASE pc = "kernel_map_binary" -> "enable_mmu_and_caching"
      [] pc = "enable_mmu_and_caching" -> "post_enable_init"
      [] pc = "post_enable_init" -> "instantiate_uart"
      [] pc = "instantiate_uart" -> "instantiate_gpio"
      [] pc = "instantiate_gpio" -> "instantiate_interrupt_controller"
      [] pc = "instantiate_interrupt_controller" -> "init_drivers_and_irqs"
      [] pc = "init_drivers_and_irqs" -> "local_irq_unmask"
      [] pc = "local_irq_unmask" -> "transition_to_single_core_main"
      [] OTHER -> "kernel_main"

(* kernel_init is entered once, after set_exception_vector, with nothing   *)
(* registered and no allocator initialized.                                *)
BInit ==
    /\ boot_pc = "kernel_map_binary"
    /\ boot_layout = BootLayout(PageRegion(0, 1),
                                PageRegion(MmioRemapStartPage + MmioRemapPages + 2, 1),
                                PageRegion(MmioRemapStartPage + MmioRemapPages, 1),
                                PageRegion(MmioRemapStartPage + MmioRemapPages + 1, 1))
    /\ boot_base = 0
    /\ boot_drivers = {}
    /\ boot_init_done = FALSE
    /\ boot_heap = NoPool

BInitLinked ==
    /\ boot_pc = "kernel_map_binary"
    /\ boot_layout \in BootLayouts
    /\ boot_base = 0
    /\ boot_drivers = {}
    /\ boot_init_done = FALSE
    /\ boot_heap = NoPool

(* memory::mmu::kernel_map_binary: tables.init() and phys_base_address()   *)
(* under the table's lock, then the BSP's four mappings.                   *)
B_kernel_map_binary ==
    /\ boot_pc = "kernel_map_binary"
    /\ IF ~InitStateLock_write_asserts(kernel_state, DAIF)
       THEN /\ boot_pc' = "panic"
            /\ k_last' = [KNoCall EXCEPT !.op = "kernel_map_binary", !.res = "panic"]
            /\ UNCHANGED <<lvl3, lvl2, initialized, mr_inner, boot_base>>
       ELSE LET returned(r) ==
                    /\ lvl2' = IF initialized THEN lvl2
                               ELSE [i \in TableIdx |->
                                        TableDescriptor_from_phys_addr(lvl3_phys_start_addr(i))]
                    /\ initialized' = TRUE
                    /\ lvl3' = r.k.lvl3
                    /\ mr_inner' = r.k.inner
                    /\ boot_base' = IF r.res = OkRes THEN phys_base_address ELSE boot_base
                    /\ boot_pc' = IF r.res = OkRes THEN kernel_init_next(boot_pc) ELSE "panic"
                    /\ k_last' = [KNoCall EXCEPT !.op = "kernel_map_binary", !.res = r.res]
            IN  returned(bsp_kernel_map_binary([KernelValue EXCEPT !.initialized = TRUE],
                                               kernel_state, DAIF,
                                               BinaryRegions(boot_layout), 1))
    /\ UNCHANGED <<pa_pool, regs, mmu_arg, mmu_res, mmu_ok_count, kernel_state, DAIF,
                   k_mmio_ok, boot_layout, boot_drivers, boot_init_done, boot_heap>>
    /\ UNCHANGED <<dm_inner, cur_console, dm_trace, dm_res>>
    /\ UNCHANGED bOthers

(* memory::mmu::enable_mmu_and_caching(phys_kernel_tables_base_addr)       *)
B_enable_mmu_and_caching ==
    /\ boot_pc = "enable_mmu_and_caching"
    /\ LET returned(e) ==
               /\ regs' = e.regs
               /\ mmu_arg' = boot_base
               /\ mmu_res' = e.res
               /\ mmu_ok_count' = IF e.res = OkRes THEN mmu_ok_count + 1 ELSE mmu_ok_count
               /\ boot_pc' = IF e.res = OkRes THEN kernel_init_next(boot_pc) ELSE "panic"
               /\ k_last' = [KNoCall EXCEPT !.op = "enable_mmu_and_caching", !.res = e.res]
       IN  returned(enable_mmu_and_caching(regs, boot_base))
    /\ UNCHANGED <<lvl3, lvl2, initialized, pa_pool, mr_inner, kernel_state, DAIF,
                   k_mmio_ok, boot_layout, boot_base, boot_drivers, boot_init_done, boot_heap>>
    /\ UNCHANGED <<dm_inner, cur_console, dm_trace, dm_res>>
    /\ UNCHANGED bOthers

(* memory::post_enable_init: kernel_init_mmio_va_allocator, then           *)
(* kernel_init_heap_allocator, each under its IRQSafeNullLock.             *)
B_post_enable_init ==
    /\ boot_pc = "post_enable_init"
    /\ pa_pool' = PageAllocator_init(pa_pool, virt_mmio_remap_region)
    /\ boot_heap' = IF boot_heap.is_some THEN boot_heap
                    ELSE [is_some |-> TRUE, region |-> boot_layout.heap]
    /\ DAIF' = IRQSafeNullLock_lock_daif(IRQSafeNullLock_lock_daif(DAIF))
    /\ boot_pc' = kernel_init_next(boot_pc)
    /\ k_last' = [KNoCall EXCEPT !.op = "post_enable_init", !.res = OkRes]
    /\ UNCHANGED <<lvl3, lvl2, initialized, mr_inner, regs, mmu_arg, mmu_res, mmu_ok_count,
                   kernel_state, k_mmio_ok, boot_layout, boot_base, boot_drivers,
                   boot_init_done>>
    /\ UNCHANGED <<dm_inner, cur_console, dm_trace, dm_res>>
    /\ UNCHANGED bOthers

(* One instantiate_* call of bsp::driver::init and the register_driver     *)
(* after it, which writes the driver manager under its InitStateLock.      *)
(* The first checks INIT_DONE, the last stores it.                         *)
instantiate_call(pc, driver, requests) ==
    /\ boot_pc = pc
    /\ IF pc = "instantiate_uart" /\ boot_init_done
       THEN /\ boot_pc' = "panic"
            /\ k_last' = [KNoCall EXCEPT !.op = pc, !.res = "Init already done"]
            /\ UNCHANGED <<lvl3, mr_inner, pa_pool, DAIF, k_mmio_ok, boot_drivers,
                           boot_init_done, dm_inner>>
       ELSE LET returned(r, reg) ==
                    /\ lvl3' = r.k.lvl3
                    /\ mr_inner' = r.k.inner
                    /\ pa_pool' = r.k.pool
                    /\ DAIF' = IF r.k.pool # pa_pool THEN IRQSafeNullLock_lock_daif(DAIF)
                               ELSE DAIF
                    /\ k_mmio_ok' = IF r.res = OkRes
                                    THEN k_mmio_ok \cup { MemoryRegion_from(requests[i].desc) :
                                                            i \in 1 .. Len(requests) }
                                    ELSE k_mmio_ok
                    /\ dm_inner' = IF r.res = OkRes THEN reg.inner ELSE dm_inner
                    /\ boot_drivers' = IF r.res = OkRes /\ reg.res = OkRes
                                       THEN boot_drivers \cup {driver}
                                       ELSE boot_drivers
                    /\ boot_init_done' = IF r.res = OkRes /\ reg.res = OkRes
                                            /\ pc = "instantiate_interrupt_controller"
                                         THEN TRUE ELSE boot_init_done
                    /\ boot_pc' = IF r.res = OkRes /\ reg.res = OkRes
                                  THEN kernel_init_next(boot_pc) ELSE "panic"
                    /\ k_last' = [KNoCall EXCEPT !.op = pc,
                                                 !.res = IF r.res = OkRes THEN reg.res ELSE r.res,
                                                 !.warn = r.warn]
            IN  returned(instantiate(KernelValue, kernel_state, DAIF, requests, 1),
                         register_driver(dm_inner, kernel_state, DAIF, driver))
    /\ UNCHANGED <<lvl2, initialized, regs, mmu_arg, mmu_res, mmu_ok_count, kernel_state,
                   boot_layout, boot_base, boot_heap>>
    /\ UNCHANGED <<cur_console, dm_trace, dm_res>>
    /\ UNCHANGED bOthers

B_instantiate_uart == instantiate_call("instantiate_uart", "PL011_UART", UartRequests)

B_instantiate_gpio == instantiate_call("instantiate_gpio", "GPIO", GpioRequests)

B_instantiate_interrupt_controller ==
    instantiate_call("instantiate_interrupt_controller", "INTERRUPT_CONTROLLER",
                     InterruptControllerRequests)

(* DRIVER_MANAGER.init_drivers_and_irqs over the registered drivers.  The   *)
(* UART's post-init callback is post_init_uart, which registers the        *)
(* console under CUR_CONSOLE's InitStateLock.                              *)
B_init_drivers_and_irqs ==
    /\ boot_pc = "init_drivers_and_irqs"
    /\ LET returned(r, c) ==
               /\ dm_trace' = r.trace
               /\ dm_res' = IF c.res = "panic" THEN "panic" ELSE r.res
               /\ cur_console' = c.con
               /\ boot_pc' = IF r.res = OkRes /\ c.res = OkRes
                             THEN kernel_init_next(boot_pc) ELSE "panic"
               /\ k_last' = [KNoCall EXCEPT !.op = "init_drivers_and_irqs",
                                            !.res = IF c.res = "panic" THEN "panic" ELSE r.res]
       IN  returned(init_drivers_and_irqs(dm_inner),
                    IF \E i \in 0 .. (NUM_DRIVERS - 1) : dm_inner.descriptors[i] = "PL011_UART"
                    THEN register_console(cur_console, kernel_state, DAIF, "PL011_UART")
                    ELSE [res |-> OkRes, con |-> cur_console])
    /\ UNCHANGED <<lvl3, lvl2, initialized, pa_pool, mr_inner, regs, mmu_arg, mmu_res,
                   mmu_ok_count, kernel_state, DAIF, k_mmio_ok, boot_layout, boot_base,
                   boot_drivers, boot_init_done, boot_heap, dm_inner>>
    /\ UNCHANGED bOthers

B_local_irq_unmask ==
    /\ boot_pc = "local_irq_unmask"
    /\ DAIF' = local_irq_unmask(DAIF)
    /\ boot_pc' = kernel_init_next(boot_pc)
    /\ k_last' = [KNoCall EXCEPT !.op = "local_irq_unmask", !.res = OkRes]
    /\ UNCHANGED <<lvl3, lvl2, initialized, pa_pool, mr_inner, regs, mmu_arg, mmu_res,
                   mmu_ok_count, kernel_state, k_mmio_ok, boot_layout, boot_base,
                   boot_drivers, boot_init_done, boot_heap>>
    /\ UNCHANGED <<dm_inner, cur_console, dm_trace, dm_res>>
    /\ UNCHANGED bOthers

B_transition_to_single_core_main ==
    /\ boot_pc = "transition_to_single_core_main"
    /\ kernel_state' = IF is_init(kernel_state) THEN "SingleCoreMain" ELSE kernel_state
    /\ boot_pc' = IF is_init(kernel_state) THEN kernel_init_next(boot_pc) ELSE "panic"
    /\ k_last' = [KNoCall EXCEPT !.op = "transition_to_single_core_main",
                                 !.res = IF is_init(kernel_state) THEN OkRes ELSE "panic"]
    /\ UNCHANGED <<lvl3, lvl2, initialized, pa_pool, mr_inner, regs, mmu_arg, mmu_res,
                   mmu_ok_count, DAIF, k_mmio_ok, boot_layout, boot_base, boot_drivers,
                   boot_init_done, boot_heap>>
    /\ UNCHANGED <<dm_inner, cur_console, dm_trace, dm_res>>
    /\ UNCHANGED bOthers

(* Every page of the four regions of the binary has a valid descriptor.    *)
BinaryMapped ==
    \A i \in 1 .. Len(BinaryRegions(boot_layout)) :
        \A a \in as_range(BinaryRegions(boot_layout)[i].virt) :
            is_valid(DescriptorAt(lvl3, a))

MmioSteps == {"instantiate_uart", "instantiate_gpio", "instantiate_interrupt_controller"}

(***************************************************************************)
(* C12: boot order.  The Translation Table is initialized and the kernel   *)
(* binary is mapped in it before the MMU is enabled on it; the MMU is      *)
(* enabled before any driver is instantiated; and the MMIO page allocator  *)
(* is initialized before the first allocation is asked of it.              *)
(***************************************************************************)
C12_BootOrder ==
    /\ [][(~is_enabled(regs) /\ is_enabled(regs')) =>
              (initialized /\ BinaryMapped /\ regs'.TTBR0_EL1 = phys_base_address)]_vars
    /\ [](boot_drivers # {} => is_enabled(regs))
    /\ [][(boot_pc \in MmioSteps /\ boot_pc' # boot_pc) =>
              (is_enabled(regs) /\ pa_pool.is_some
               /\ k_last'.res # "Allocator not initialized")]_vars

(* kernel_init has run through to kernel_main: MMU on, the three drivers   *)
(* registered, their windows allocated from the initialized pool.          *)
C12_Witness ==
    /\ boot_pc = "kernel_main"
    /\ is_enabled(regs)
    /\ boot_drivers = {"PL011_UART", "GPIO", "INTERRUPT_CONTROLLER"}
    /\ pa_pool.is_some /\ pa_pool.region.start > virt_mmio_remap_region.start
    /\ BinaryMapped


(* kernel_map_binary has returned Ok.                                      *)
BinaryMapDone ==
    \/ boot_pc \notin {"kernel_map_binary", "panic"}
    \/ boot_pc = "panic" /\ k_last.op # "kernel_map_binary"

(* What the MMU lets EL1 do with the page a descriptor maps.               *)
DescriptorWritable(desc) == desc.AP \in {0, 1}

DescriptorExecutable(desc) == desc.PXN = 0

BinaryRegionPages(i) == as_range(BinaryRegions(boot_layout)[i].virt)

PhaseGatedData == <<lvl3, lvl2, initialized, mr_inner, dm_inner, cur_console>>

PreUnmaskSteps ==
    {"kernel_map_binary", "enable_mmu_and_caching", "post_enable_init", "instantiate_uart",
     "instantiate_gpio", "instantiate_interrupt_controller", "init_drivers_and_irqs"}

(* kernel_init has stopped on an Err that one of its calls returned.       *)
CallFailed == boot_pc = "panic" /\ k_last.res \notin {"panic", OkRes}

(***************************************************************************)
(* C32: entered with IRQs masked, kernel_init never fails a lock           *)
(* precondition.  Every write to phase-gated data (table init and binary   *)
(* mapping, mapping-record additions, MMIO mappings, driver and console    *)
(* registration) is made in the pre-init state, with IRQs masked, by a     *)
(* call that precedes local_irq_unmask; kernel_init stops only on an Err   *)
(* returned by a mapping, enable or driver call; and when no call fails    *)
(* it reaches kernel_main.                                                 *)
(***************************************************************************)
C32_BootNeverFailsLock ==
    /\ [][PhaseGatedData' # PhaseGatedData =>
              (kernel_state = "Init" /\ DAIF.I = 1 /\ boot_pc \in PreUnmaskSteps)]_vars
    /\ [](boot_pc = "panic" => CallFailed)
    /\ [](boot_pc \in {"local_irq_unmask", "transition_to_single_core_main", "kernel_main"} =>
              (dm_inner.next_index = 3 /\ cur_console = "PL011_UART" /\ BinaryMapped))
    /\ <>(boot_pc = "kernel_main" \/ CallFailed)

(* kernel_init is through: the binary and the device windows are mapped    *)
(* and recorded, three drivers and the console are registered, IRQs are    *)
(* unmasked and the lifecycle state has left pre-init.                     *)
C32_Witness ==
    /\ boot_pc = "kernel_main"
    /\ kernel_state = "SingleCoreMain"
    /\ DAIF.I = 0
    /\ dm_inner.descriptors[0] = "PL011_UART"
    /\ dm_inner.descriptors[2] = "INTERRUPT_CONTROLLER"
    /\ cur_console = "PL011_UART"
    /\ dm_res = OkRes
    /\ k_mmio_ok # {}
    /\ BinaryMapped


(***************************************************************************)
(* kernel_map_mmio calls that fail after the allocator has handed out      *)
(* pages: besides the UART and GIC windows, a device window that lies past *)
(* the end of the physical address space, which map_at refuses.            *)
(***************************************************************************)
FailRequests ==
    { q \in MmioRequests : q.name \in {"uart", "gic"} }
      \cup { [name |-> "far", desc |-> MMIODescriptor_new(phys_addr_space_end_exclusive_addr, 2)] }

MF_kernel_map_mmio == kernel_map_mmio_call(FailRequests)

(***************************************************************************)
(* C33: a kernel_map_mmio call that returns failure leaves the allocator   *)
(* pool, every page descriptor of the translation table and the mapping    *)
(* record as they were before the call.                                    *)
(***************************************************************************)
C33_FailedMmioLeavesState ==
    [][(k_last'.op = "kernel_map_mmio" /\ ~k_halted' /\ k_last'.res # OkRes) =>
           (pa_pool' = pa_pool /\ lvl3' = lvl3 /\ mr_inner' = mr_inner)]_vars


(* The virtual pages that the entries of the mapping record span.          *)
RecordedPages(inner) ==
    UNION { as_range(MemoryRegion(inner[i].virt_start_addr,
                                  inner[i].virt_start_addr
                                      + inner[i].num_pages * KernelGranule_SIZE)) :
              i \in { j \in 1 .. MAX_MAPPINGS : inner[j].is_some } }

(***************************************************************************)
(* C34: after any sequence of kernel_map_at and kernel_map_mmio calls,     *)
(* successful or failed, every virtual page whose descriptor is valid in   *)
(* the translation table lies inside the virtual range of some entry of    *)
(* the mapping record.                                                     *)
(***************************************************************************)
C34_RecordCoversValidPages ==
    \A a \in TablePages : is_valid(DescriptorAt(lvl3, a)) => a \in RecordedPages(mr_inner)


(***************************************************************************)
(* The serial loader.  The kernel loader's kernel_main (device) and the    *)
(* boot console's main loop and send_kernel (host) talk over the serial    *)
(* line: to_dev holds the bytes the host wrote and the loader has not read *)
(* yet, to_host the bytes the loader wrote and the host has not read yet.  *)
(* ld_rx, ld_tx and ld_jump keep what the loader read, the bytes it wrote  *)
(* with write_char (each with the number of bytes read and stored by then) *)
(* and its jump; ld_mem is the memory it wrote, in write order.            *)
(***************************************************************************)
KERNEL_LOAD_START_SIGNAL == 1
KERNEL_LOAD_SIZE_ACK_SIGNAL == 2
KERNEL_LOAD_ACK_SIGNAL == 3
BOARD_DEFAULT_LOAD_ADDRESS == 524288

(* The values of a u8.                                                     *)
ByteValues == 256

(* The key that starts an upload: `1`.                                     *)
UploadKey == 49

MaxKeys == 1
MaxUploads == 1
KernelBigLen == 256

(* Keys typed besides `1`: they go to the serial line as they are.         *)
Keys == {KERNEL_LOAD_START_SIGNAL, KERNEL_LOAD_SIZE_ACK_SIGNAL}

(* What println! puts on the line, shortened to its first character.       *)
LoaderText == <<91>>

(* File::open failed.                                                      *)
NoFile == [ok |-> FALSE, kernel |-> <<>>]

(* The kernel files: empty, one byte, two bytes, and one whose length does *)
(* not fit in the first size byte.                                         *)
KernelFiles ==
    { <<>>, <<KERNEL_LOAD_START_SIGNAL>>, <<KERNEL_LOAD_ACK_SIGNAL, UploadKey>>,
      [i \in 1 .. KernelBigLen |-> i % 4] }

SLRest ==
    /\ to_dev = <<>>
    /\ to_host = <<>>
    /\ ld_pc = "banner"
    /\ ld_size = 0
    /\ ld_n = 0
    /\ ld_rx = <<>>
    /\ ld_mem = <<>>
    /\ ld_tx = <<>>
    /\ ld_jump = [done |-> FALSE, addr |-> 0]
    /\ h_pc = "select"
    /\ h_n = 0
    /\ h_buff = <<>>
    /\ h_report = "none"
    /\ h_keys = 0
    /\ h_uploads = 0

SLFixed == SLRest /\ h_file = [ok |-> TRUE, kernel |-> <<>>]

SLInit == SLRest /\ h_file \in { [ok |-> TRUE, kernel |-> f] : f \in KernelFiles } \cup {NoFile}

size_or_shifted_big_endian(acc, byte, n) == acc * ByteValues + byte

(* size |= u32::from(byte) << (8 * n), for the n-th size byte read: the    *)
(* bits or-ed in are zero in size (acc), and four bytes fill a u32.        *)
size_or_shifted(acc, byte, n) == acc + byte * ByteValues ^ n

(* kernel_main up to the loop that waits for the start signal: the two     *)
(* println!, flush, clear_rx.                                              *)
L_banner ==
    /\ ld_pc = "banner"
    /\ to_host' = to_host \o LoaderText \o LoaderText
    /\ to_dev' = <<>>
    /\ ld_pc' = "wait_start"
    /\ UNCHANGED <<ld_size, ld_n, ld_rx, ld_mem, ld_tx, ld_jump>>
    /\ UNCHANGED hVars
    /\ UNCHANGED slOthers

(* One turn of `while console.read_char() as u8 != KERNEL_LOAD_START_SIGNAL`. *)
L_wait_start ==
    /\ ld_pc = "wait_start"
    /\ to_dev # <<>>
    /\ to_dev' = Tail(to_dev)
    /\ ld_rx' = Append(ld_rx, Head(to_dev))
    /\ ld_pc' = IF Head(to_dev) # KERNEL_LOAD_START_SIGNAL THEN "wait_start" ELSE "size"
    /\ UNCHANGED <<to_host, ld_size, ld_n, ld_mem, ld_tx, ld_jump>>
    /\ UNCHANGED hVars
    /\ UNCHANGED slOthers

(* One of the four reads of the size.                                      *)
L_read_size ==
    /\ ld_pc = "size"
    /\ to_dev # <<>>
    /\ to_dev' = Tail(to_dev)
    /\ ld_rx' = Append(ld_rx, Head(to_dev))
    /\ ld_size' = size_or_shifted(IF ld_n = 0 THEN 0 ELSE ld_size, Head(to_dev), ld_n)
    /\ ld_n' = IF ld_n = 3 THEN 0 ELSE ld_n + 1
    /\ ld_pc' = IF ld_n = 3 THEN "size_ack" ELSE "size"
    /\ UNCHANGED <<to_host, ld_mem, ld_tx, ld_jump>>
    /\ UNCHANGED hVars
    /\ UNCHANGED slOthers

(* console.write_char(KERNEL_LOAD_SIZE_ACK_SIGNAL)                         *)
L_write_size_ack ==
    /\ ld_pc = "size_ack"
    /\ to_host' = Append(to_host, KERNEL_LOAD_SIZE_ACK_SIGNAL)
    /\ ld_tx' = Append(ld_tx, [byte |-> KERNEL_LOAD_SIZE_ACK_SIGNAL, rx |-> Len(ld_rx),
                               stored |-> Len(ld_mem)])
    /\ ld_pc' = "payload"
    /\ UNCHANGED <<to_dev, ld_size, ld_n, ld_rx, ld_mem, ld_jump>>
    /\ UNCHANGED hVars
    /\ UNCHANGED slOthers

(* One turn of `for i in 0..size`: write_volatile(kernel_addr.offset(i),   *)
(* read_char()).                                                           *)
L_store ==
    /\ ld_pc = "payload"
    /\ ld_n < ld_size
    /\ to_dev # <<>>
    /\ to_dev' = Tail(to_dev)
    /\ ld_rx' = Append(ld_rx, Head(to_dev))
    /\ ld_mem' = Append(ld_mem, [addr |-> BOARD_DEFAULT_LOAD_ADDRESS + ld_n,
                                 byte |-> Head(to_dev)])
    /\ ld_n' = ld_n + 1
    /\ UNCHANGED <<to_host, ld_pc, ld_size, ld_tx, ld_jump>>
    /\ UNCHANGED hVars
    /\ UNCHANGED slOthers

(* The loop is through: console.write_char(KERNEL_LOAD_ACK_SIGNAL), flush. *)
L_write_ack ==
    /\ ld_pc = "payload"
    /\ ld_n >= ld_size
    /\ to_host' = Append(to_host, KERNEL_LOAD_ACK_SIGNAL)
    /\ ld_tx' = Append(ld_tx, [byte |-> KERNEL_LOAD_ACK_SIGNAL, rx |-> Len(ld_rx),
                               stored |-> Len(ld_mem)])
    /\ ld_pc' = "loaded"
    /\ UNCHANGED <<to_dev, ld_size, ld_n, ld_rx, ld_mem, ld_jump>>
    /\ UNCHANGED hVars
    /\ UNCHANGED slOthers

(* println!, transmute(kernel_addr), kernel().                             *)
L_jump ==
    /\ ld_pc = "loaded"
    /\ to_host' = to_host \o LoaderText
    /\ ld_jump' = [done |-> TRUE, addr |-> BOARD_DEFAULT_LOAD_ADDRESS]
    /\ ld_pc' = "jumped"
    /\ UNCHANGED <<to_dev, ld_size, ld_n, ld_rx, ld_mem, ld_tx>>
    /\ UNCHANGED hVars
    /\ UNCHANGED slOthers

(* main's select!: a key other than `1` (stdin_action writes it out).      *)
H_stdin_key ==
    /\ h_pc = "select"
    /\ h_keys < MaxKeys
    /\ \E val \in Keys : to_dev' = Append(to_dev, val)
    /\ h_keys' = h_keys + 1
    /\ UNCHANGED <<to_host, h_pc, h_file, h_n, h_buff, h_report, h_uploads>>
    /\ UNCHANGED ldVars
    /\ UNCHANGED slOthers

(* main's select!: the key `1`.  send_kernel opens and reads the file.     *)
H_stdin_upload ==
    /\ h_pc = "select"
    /\ h_uploads < MaxUploads
    /\ h_uploads' = h_uploads + 1
    /\ h_pc' = IF ~h_file.ok THEN "select" ELSE "notify"
    /\ h_report' = IF ~h_file.ok THEN "Couldn't upload kernel" ELSE "Uploading kernel..."
    /\ UNCHANGED <<to_dev, to_host, h_file, h_n, h_buff, h_keys>>
    /\ UNCHANGED ldVars
    /\ UNCHANGED slOthers

(* main's select!: read_to_end on the serial line returned bytes;          *)
(* serial_action writes them to stderr and clears the buffer.              *)
H_serial_action ==
    /\ h_pc = "select"
    /\ to_host # <<>>
    /\ to_host' = <<>>
    /\ UNCHANGED <<to_dev, h_pc, h_file, h_n, h_buff, h_report, h_keys, h_uploads>>
    /\ UNCHANGED ldVars
    /\ UNCHANGED slOthers

(* async_serial.write_u8(KERNEL_LOAD_START_SIGNAL)                         *)
H_write_start ==
    /\ h_pc = "notify"
    /\ to_dev' = Append(to_dev, KERNEL_LOAD_START_SIGNAL)
    /\ h_pc' = "size"
    /\ h_n' = 0
    /\ h_report' = "Notifing loader..."
    /\ UNCHANGED <<to_host, h_file, h_buff, h_keys, h_uploads>>
    /\ UNCHANGED ldVars
    /\ UNCHANGED slOthers

(* One turn of `for i in 0..4`: ((kernel.len() >> (8 * i)) & 0xFF) as u8.  *)
H_write_size ==
    /\ h_pc = "size"
    /\ to_dev' = Append(to_dev, (Len(h_file.kernel) \div (ByteValues ^ h_n)) % ByteValues)
    /\ h_n' = IF h_n = 3 THEN 0 ELSE h_n + 1
    /\ h_pc' = IF h_n = 3 THEN "wait_size_ack" ELSE "size"
    /\ h_buff' = IF h_n = 3 THEN <<>> ELSE h_buff
    /\ h_report' = "Writing kernel size"
    /\ UNCHANGED <<to_host, h_file, h_keys, h_uploads>>
    /\ UNCHANGED ldVars
    /\ UNCHANGED slOthers

(* `while read_to_end(&mut buff) == 0 {}` has read bytes: they are         *)
(* appended to buff, and buff is compared with the size-ack.               *)
H_read_size_ack ==
    /\ h_pc = "wait_size_ack"
    /\ to_host # <<>>
    /\ h_buff' = h_buff \o to_host
    /\ to_host' = <<>>
    /\ h_pc' = IF h_buff' # <<KERNEL_LOAD_SIZE_ACK_SIGNAL>> THEN "select"
               ELSE IF Len(h_file.kernel) = 0 THEN "wait_ack" ELSE "send"
    /\ h_report' = IF h_buff' # <<KERNEL_LOAD_SIZE_ACK_SIGNAL>>
                   THEN "Did not receive responce to kernel size"
                   ELSE "Recieved kernel size ack..."
    /\ h_n' = 0
    /\ UNCHANGED <<to_dev, h_file, h_keys, h_uploads>>
    /\ UNCHANGED ldVars
    /\ UNCHANGED slOthers

(* One turn of `for (i, byte) in kernel.iter().enumerate()`.               *)
H_write_byte ==
    /\ h_pc = "send"
    /\ to_dev' = Append(to_dev, h_file.kernel[h_n + 1])
    /\ h_n' = h_n + 1
    /\ h_pc' = IF h_n + 1 = Len(h_file.kernel) THEN "wait_ack" ELSE "send"
    /\ h_report' = "Sending"
    /\ UNCHANGED <<to_host, h_file, h_buff, h_keys, h_uploads>>
    /\ UNCHANGED ldVars
    /\ UNCHANGED slOthers

(* The second `while read_to_end(&mut buff) == 0 {}` has read bytes: they  *)
(* are appended to the same buff, and buff is compared with the ack.       *)
H_read_ack ==
    /\ h_pc = "wait_ack"
    /\ to_host # <<>>
    /\ h_buff' = h_buff \o to_host
    /\ to_host' = <<>>
    /\ h_pc' = "select"
    /\ h_report' = IF h_buff' # <<KERNEL_LOAD_ACK_SIGNAL>>
                   THEN "Did not receive responce to kernel successuf upload"
                   ELSE "Recieved kernel rcv ack..."
    /\ UNCHANGED <<to_dev, h_file, h_n, h_keys, h_uploads>>
    /\ UNCHANGED ldVars
    /\ UNCHANGED slOthers

(* Where the start signal is in what the loader read; 0 if it is not.      *)
StartIndex ==
    IF \E i \in 1 .. Len(ld_rx) : ld_rx[i] = KERNEL_LOAD_START_SIGNAL
    THEN CHOOSE i \in 1 .. Len(ld_rx) :
             /\ ld_rx[i] = KERNEL_LOAD_START_SIGNAL
             /\ \A j \in 1 .. (i - 1) : ld_rx[j] # KERNEL_LOAD_START_SIGNAL
    ELSE 0

(* The four bytes after the start signal, read as a little-endian number.  *)
SizeSent ==
    ld_rx[StartIndex + 1] + ld_rx[StartIndex + 2] * 256
        + ld_rx[StartIndex + 3] * 65536 + ld_rx[StartIndex + 4] * 16777216

(***************************************************************************)
(* C37: the loader does nothing but read until it has read the start       *)
(* signal 0x01; it takes the next four bytes as the little-endian size;    *)
(* it sends the size-ack 0x02 after it has read the fourth of them and     *)
(* before it stores anything; it stores the bytes that follow, one after   *)
(* the other from the load address on, and no more than size of them; it   *)
(* sends the ack 0x03 when it has stored exactly size bytes; and it jumps  *)
(* to the load address only after it has sent 0x03.                        *)
(***************************************************************************)
C37_LoaderHandshake ==
    /\ (StartIndex = 0 \/ Len(ld_rx) < StartIndex + 4) =>
           (ld_tx = <<>> /\ ld_mem = <<>> /\ ~ld_jump.done)
    /\ (StartIndex > 0 /\ Len(ld_rx) >= StartIndex + 4) =>
           /\ ld_size = SizeSent
           /\ Len(ld_rx) <= StartIndex + 4 + SizeSent
           /\ Len(ld_tx) <= 2
           /\ ld_tx # <<>> =>
                  ld_tx[1] = [byte |-> KERNEL_LOAD_SIZE_ACK_SIGNAL, rx |-> StartIndex + 4,
                              stored |-> 0]
           /\ ld_mem # <<>> => ld_tx # <<>>
           /\ Len(ld_mem) = Len(ld_rx) - (StartIndex + 4)
           /\ \A j \in 1 .. Len(ld_mem) :
                  ld_mem[j] = [addr |-> BOARD_DEFAULT_LOAD_ADDRESS + (j - 1),
                               byte |-> ld_rx[StartIndex + 4 + j]]
           /\ Len(ld_tx) = 2 =>
                  ld_tx[2] = [byte |-> KERNEL_LOAD_ACK_SIGNAL,
                              rx |-> StartIndex + 4 + SizeSent, stored |-> SizeSent]
           /\ ld_jump.done => (Len(ld_tx) = 2 /\ ld_jump.addr = BOARD_DEFAULT_LOAD_ADDRESS)

(* The loader skipped a byte, read the start signal and the size 256, sent *)
(* the size-ack, stored 256 bytes, sent the ack and jumped.                *)
C37_Witness ==
    /\ ld_pc = "jumped"
    /\ StartIndex = 2
    /\ ld_size = KernelBigLen
    /\ Len(ld_mem) = KernelBigLen
    /\ ld_mem[KernelBigLen].addr = BOARD_DEFAULT_LOAD_ADDRESS + KernelBigLen - 1
    /\ Len(ld_tx) = 2

(***************************************************************************)
(* C38: send_kernel sends no byte of the kernel before it has received the *)
(* size-ack, and when the loader has answered the size with exactly 0x02   *)
(* and, after the payload, sends 0x03, send_kernel reports that the        *)
(* kernel-received ack arrived.                                            *)
(***************************************************************************)
C38_HostReportsAck ==
    /\ [][(h_pc' = "send" /\ to_dev' # to_dev) =>
              (h_pc \in {"wait_size_ack", "send"} /\ h_buff' = <<KERNEL_LOAD_SIZE_ACK_SIGNAL>>)]_vars
    /\ [][(h_pc = "wait_ack" /\ h_pc' = "select" /\ to_host = <<KERNEL_LOAD_ACK_SIGNAL>>
               /\ Len(ld_tx) = 2) =>
              h_report' = "Recieved kernel rcv ack..."]_vars


(***************************************************************************)
(* Specifications, one per component; the other components stay as built.  *)
(***************************************************************************)
Init == TTInit /\ PAInit /\ MRInit /\ MMURest /\ LKInit /\ ILInit /\ KInit /\ BInit /\ CORest /\ PHInit /\ DInit /\ SLFixed

SpecTable == Init /\ [][TT_init \/ TT_map_at \/ TT_try_page_attributes]_vars

SpecPool == Init /\ [][PA_init \/ PA_alloc]_vars

SpecRecords == Init /\ [][MR_add \/ MR_find_device_record]_vars

MMUNext ==
    \/ MMU_enable_mmu_and_caching
    \/ MMU_set_up_mair
    \/ MMU_set_baddr
    \/ MMU_configure_translation_control
    \/ MMU_isb_before_enable
    \/ MMU_sctlr_modify
    \/ MMU_isb_after_enable

InitMmu == TTInit /\ PAInit /\ MRInit /\ MMUInit /\ LKInit /\ ILInit /\ KInit /\ BInit /\ CORest /\ PHInit /\ DInit /\ SLFixed

SpecMmu == InitMmu /\ [][MMUNext]_vars

LKNext ==
    \/ LK_write
    \/ LK_read
    \/ LK_local_irq_unmask
    \/ LK_local_irq_mask
    \/ LK_transition_to_single_core_main

SpecLock == Init /\ [][LKNext]_vars

ILNext ==
    \/ IL_lock
    \/ IL_closure
    \/ IL_unlock
    \/ IL_local_irq_unmask
    \/ IL_local_irq_mask

SpecIrqLock == Init /\ [][ILNext]_vars

KNext ==
    \/ K_init_tables
    \/ K_init_mmio_va_allocator
    \/ K_kernel_map_at
    \/ K_kernel_map_mmio
    \/ K_local_irq_unmask
    \/ K_transition_to_single_core_main

SpecKernel == Init /\ [][KNext]_vars

KFNext ==
    \/ K_init_tables
    \/ K_init_mmio_va_allocator
    \/ KF_kernel_map_at
    \/ KF_kernel_map_mmio

SpecKernelFull == Init /\ [][KFNext]_vars


BNext ==
    \/ B_kernel_map_binary
    \/ B_enable_mmu_and_caching
    \/ B_post_enable_init
    \/ B_instantiate_uart
    \/ B_instantiate_gpio
    \/ B_instantiate_interrupt_controller
    \/ B_init_drivers_and_irqs
    \/ B_local_irq_unmask
    \/ B_transition_to_single_core_main

InitBoot == TTInit /\ PAInit /\ MRInit /\ MMUInit /\ LKInit /\ ILInit /\ KInit /\ BInitLinked /\ CORest /\ PHInit /\ DInit /\ SLFixed

SpecBoot == InitBoot /\ [][BNext]_vars

PHNext ==
    \/ K_init_tables
    \/ K_init_mmio_va_allocator
    \/ PH_kernel_map_at
    \/ PH_kernel_map_mmio
    \/ PH_register_driver
    \/ PH_register_console
    \/ PH_kernel_page_attributes
    \/ PH_print_kernel_mappings
    \/ PH_local_irq_mask
    \/ K_local_irq_unmask
    \/ K_transition_to_single_core_main

SpecPhase == Init /\ [][PHNext]_vars

SpecDrivers == Init /\ [][DM_register_driver \/ DM_init_drivers_and_irqs]_vars

(* kernel_init is straight-line code on the one running core: the call it *)
(* is at is eventually made.  That is weak fairness of every step; for the *)
(* steps that map memory, ENABLED is written out as the position the step  *)
(* is taken from.                                                          *)
BootFairness ==
    /\ WF_vars(B_enable_mmu_and_caching)
    /\ WF_vars(B_post_enable_init)
    /\ WF_vars(B_init_drivers_and_irqs)
    /\ WF_vars(B_local_irq_unmask)
    /\ WF_vars(B_transition_to_single_core_main)
    /\ ([]<>(boot_pc # "kernel_map_binary") \/ []<><<B_kernel_map_binary>>_vars)
    /\ ([]<>(boot_pc # "instantiate_uart") \/ []<><<B_instantiate_uart>>_vars)
    /\ ([]<>(boot_pc # "instantiate_gpio") \/ []<><<B_instantiate_gpio>>_vars)
    /\ ([]<>(boot_pc # "instantiate_interrupt_controller")
           \/ []<><<B_instantiate_interrupt_controller>>_vars)

SpecBootLive == InitBoot /\ [][BNext]_vars /\ BootFairness

SpecMmio == Init /\ [][K_init_tables \/ K_init_mmio_va_allocator \/ MF_kernel_map_mmio]_vars

InitOffset == TTInit /\ PAInit /\ MRInit /\ MMURest /\ LKInit /\ ILInit /\ KInit /\ BInit /\ COInit /\ PHInit /\ DInit /\ SLFixed

SpecOffset == InitOffset /\ [][CO_checked_offset \/ CO_checked_offset_back]_vars

SLNext ==
    \/ L_banner
    \/ L_wait_start
    \/ L_read_size
    \/ L_write_size_ack
    \/ L_store
    \/ L_write_ack
    \/ L_jump
    \/ H_stdin_key
    \/ H_stdin_upload
    \/ H_serial_action
    \/ H_write_start
    \/ H_write_size
    \/ H_read_size_ack
    \/ H_write_byte
    \/ H_read_ack

InitLoader == TTInit /\ PAInit /\ MRInit /\ MMURest /\ LKInit /\ ILInit /\ KInit /\ BInit /\ CORest /\ PHInit /\ DInit /\ SLInit

SpecLoader == InitLoader /\ [][SLNext]_vars

=============================================================================
